---- MODULE Spec2Model ----
(***************************************************************************)
(* A model of the otel-dynatrace-nodejs instrumentation library:           *)
(*   - the HTTP client wrapper (helpers/http-tracer.js),                    *)
(*   - the tracer facade (tracer.js),                                       *)
(*   - the Express middleware (index.js),                                   *)
(*   - configuration merge and validation (utils/config.js and              *)
(*     config/dynatrace-config.js).                                         *)
(* A span is the SDK's opaque handle: the model keeps, for each span, what  *)
(* the library did to it (attributes, status, number of end() calls, any    *)
(* operation issued after the first end()).  Time stamps and durations are  *)
(* set like every other attribute but their values are not kept.            *)
(* Each JavaScript run-to-completion step (a synchronous function, or the   *)
(* part of an async function between two awaits) is one action.             *)
(***************************************************************************)
EXTENDS Integers, Sequences, FiniteSets, TLC

VARIABLES sdkMode, http, fac, manual, mw, env, cfg, apiMode, dm, db, em, nest,
          enrich, life, inst

vars == <<sdkMode, http, fac, manual, mw, env, cfg, apiMode, dm, db, em, nest,
          enrich, life, inst>>

(***************************************************************************)
(* JavaScript values.  Numbers are kept in hundredths (1.0 is 100).         *)
(***************************************************************************)
Str(s) == [t |-> "str", v |-> s]
Hundredths(h) == [t |-> "num", v |-> h]
Num(n) == Hundredths(n * 100)
Bool(b) == [t |-> "bool", v |-> b]
Null == [t |-> "null", v |-> 0]
Undefined == [t |-> "undef", v |-> 0]
NaN == [t |-> "nan", v |-> 0]
Obj(f) == [t |-> "obj", v |-> f]
Arr(q) == [t |-> "arr", v |-> q]
EmptyObject == [k \in {} |-> Null]

\* Number.prototype.toString of a number kept in hundredths.
NumberToString(h) ==
  LET whole == ToString(h \div 100)
      frac == h % 100
  IN IF frac = 0 THEN whole
     ELSE IF frac % 10 = 0 THEN whole \o "." \o ToString(frac \div 10)
     ELSE IF frac < 10 THEN whole \o ".0" \o ToString(frac)
     ELSE whole \o "." \o ToString(frac)

\* String(x)
JsString(x) ==
  CASE x.t = "str" -> x.v
    [] x.t = "num" -> NumberToString(x.v)
    [] x.t = "bool" -> IF x.v THEN "true" ELSE "false"
    [] x.t = "null" -> "null"
    [] x.t = "undef" -> "undefined"
    [] x.t = "nan" -> "NaN"
    [] x.t = "obj" -> "[object Object]"
    [] x.t = "arr" -> IF x.v = <<>> THEN "" ELSE "array"

\* JavaScript truthiness (the tests `if (x)`, `!x`, `x || y`).
Truthy(x) ==
  CASE x.t = "str" -> x.v # ""
    [] x.t = "num" -> x.v # 0
    [] x.t = "bool" -> x.v
    [] x.t \in {"obj", "arr"} -> TRUE
    [] OTHER -> FALSE

\* obj[key] of a property map: undefined for a key the object does not own.
Prop(o, k) == IF k \in DOMAIN o THEN o[k] ELSE Undefined

(***************************************************************************)
(* The span capability of the wrapped SDK: setAttribute, setStatus,         *)
(* recordException, end.  The SDK build decides how a span behaves:         *)
(*   "ok"         nothing throws; an operation on an ended span is ignored; *)
(*   "attrThrows" setAttribute throws;                                      *)
(*   "strict"     every operation on an ended span, end() included, throws. *)
(***************************************************************************)
SdkModes == {"ok", "attrThrows", "strict"}

NoError == ""
SpanError == "SpanError"
TypeError == "TypeError"

NewSpan ==
  [opened |-> TRUE, ends |-> 0, late |-> FALSE, attrs |-> EmptyObject,
   status |-> "UNSET", msg |-> "", exc |-> FALSE]

NoSpan == [NewSpan EXCEPT !.opened = FALSE]

\* The operations a block of code issues, in order.  "raise" is a throw of
\* the block itself (JSON.stringify of a circular value, a method call on a
\* value that has no such method).
OpAttr(k, v) == [op |-> "attr", k |-> k, v |-> v]
OpStatus(code, message) == [op |-> "status", k |-> code, v |-> message]
OpException == [op |-> "exc", k |-> "", v |-> ""]
OpEnd == [op |-> "end", k |-> "", v |-> ""]
OpRaise(e) == [op |-> "raise", k |-> "", v |-> e]

SetAttr(attrs, k, v) ==
  [a \in DOMAIN attrs \cup {k} |-> IF a = k THEN v ELSE attrs[a]]

\* One operation on span s: the span afterwards and the error thrown, if any.
ApplyOp(s, o, mode) ==
  LET ended == s.ends > 0
      thrown == IF ended /\ mode = "strict" THEN SpanError ELSE NoError
  IN CASE o.op = "raise" -> [s |-> s, err |-> o.v]
       [] o.op = "end" ->
            [s |-> [s EXCEPT !.ends = @ + 1], err |-> thrown]
       [] o.op = "attr" ->
            IF mode = "attrThrows"
            THEN [s |-> [s EXCEPT !.late = @ \/ ended], err |-> SpanError]
            ELSE IF ended
            THEN [s |-> [s EXCEPT !.late = TRUE], err |-> thrown]
            ELSE [s |-> [s EXCEPT !.attrs = SetAttr(@, o.k, o.v)], err |-> NoError]
       [] o.op = "status" ->
            IF ended
            THEN [s |-> [s EXCEPT !.late = TRUE], err |-> thrown]
            ELSE [s |-> [s EXCEPT !.status = o.k, !.msg = o.v], err |-> NoError]
       [] o.op = "exc" ->
            IF ended
            THEN [s |-> [s EXCEPT !.late = TRUE], err |-> thrown]
            ELSE [s |-> [s EXCEPT !.exc = TRUE], err |-> NoError]

\* A straight-line block: the operations run in order up to the first throw.
RECURSIVE RunOps(_, _, _)
RunOps(s, ops, mode) ==
  IF ops = <<>> THEN [s |-> s, err |-> NoError]
  ELSE LET r == ApplyOp(s, Head(ops), mode)
       IN IF r.err # NoError THEN r ELSE RunOps(r.s, Tail(ops), mode)


(***************************************************************************)
(* try { body } catch (e) { handler } finally { span.end() }                *)
(* The value the block completes with: what it returns or what it throws.   *)
(* A throw of the finally block replaces the pending completion.            *)
(***************************************************************************)
Returned(v) == [kind |-> "returned", v |-> v]
Threw(e) == [kind |-> "threw", v |-> e]
NoResult == [kind |-> "none", v |-> ""]

(***************************************************************************)
(* Error objects.  id is the identity of the thrown value; nullish marks a  *)
(* rejection with null or undefined; type is error.constructor.name.        *)
(***************************************************************************)
ErrorObject(id, type, response, code, hasConfig) ==
  [id |-> id, nullish |-> FALSE, type |-> type, message |-> id,
   response |-> response, code |-> code, config |-> hasConfig]

NullishError == [ErrorObject("null", "", "none", "", FALSE) EXCEPT !.nullish = TRUE]

\* An error raised by the instrumentation itself (a TypeError of the
\* wrapper's own code, or an error thrown by a span operation).
InstrumentationError(e) == ErrorObject(e, e, "none", "", FALSE)

InstrumentationErrors == {SpanError, TypeError}

\* Object.entries(options.context).forEach(...): one attribute per key,
\* holding String(value).
ContextOps(context) ==
  [i \in 1..Len(context) |->
     OpAttr("error.context." \o context[i][1], JsString(context[i][2]))]

\* addErrorDetails without its error.timestamp attribute.
AddErrorDetailsOpsWithoutTimestamp(error, step, operation, context) ==
  IF error.nullish THEN <<>>
  ELSE <<OpException,
         OpStatus("ERROR", error.message),
         OpAttr("error", TRUE),
         OpAttr("error.type", error.type),
         OpAttr("error.message", error.message),
         OpAttr("error.stack_preview", "stack")>>
       \o (IF error.code # "" THEN <<OpAttr("error.code", error.code)>> ELSE <<>>)
       \o (IF step # "" THEN <<OpAttr("error.step", step)>> ELSE <<>>)
       \o (IF operation # "" THEN <<OpAttr("error.operation", operation)>> ELSE <<>>)
       \o ContextOps(context)

\* addErrorDetails(span, error, {step, operation, context})
AddErrorDetailsOps(error, step, operation, context) ==
  IF error.nullish THEN <<>>
  ELSE <<OpException,
         OpStatus("ERROR", error.message),
         OpAttr("error", TRUE),
         OpAttr("error.type", error.type),
         OpAttr("error.message", error.message),
         OpAttr("error.timestamp", "now"),
         OpAttr("error.stack_preview", "stack")>>
       \o (IF error.code # "" THEN <<OpAttr("error.code", error.code)>> ELSE <<>>)
       \o (IF step # "" THEN <<OpAttr("error.step", step)>> ELSE <<>>)
       \o (IF operation # "" THEN <<OpAttr("error.operation", operation)>> ELSE <<>>)
       \o ContextOps(context)

(***************************************************************************)
(* helpers/http-tracer.js: traceHttpRequest                                 *)
(***************************************************************************)
SchemeChars == {"B", "r"}
CredChars == {"x", "y"}
Space == " "
RedactedSuffix == <<" ", "[", "R", "E", "D", "A", "C", "T", "E", "D", "]">>

\* The index of the first occurrence of c in s, or 0.
FirstIndex(s, c) ==
  IF \E i \in 1..Len(s) : s[i] = c
  THEN CHOOSE i \in 1..Len(s) : s[i] = c /\ \A j \in 1..(i - 1) : s[j] # c
  ELSE 0

\* String.prototype.split(c) for a one-character separator.
RECURSIVE Split(_, _)
Split(s, c) ==
  LET i == FirstIndex(s, c)
  IN IF i = 0 THEN <<s>>
     ELSE <<SubSeq(s, 1, i - 1)>> \o Split(SubSeq(s, i + 1, Len(s)), c)

\* `${value.split(' ')[0]} [REDACTED]`
RedactAuthorization(value) == Split(value, Space)[1] \o RedactedSuffix

AuthAbsent == [kind |-> "absent", scheme |-> <<>>, sep |-> <<>>, cred |-> <<>>]
AuthNonString == [kind |-> "nonstring", scheme |-> <<>>, sep |-> <<>>, cred |-> <<>>]
AuthString(scheme, sep, cred) ==
  [kind |-> "string", scheme |-> scheme, sep |-> sep, cred |-> cred]
AuthText(a) == a.scheme \o a.sep \o a.cred

\* The Authorization header values a caller passes: none, "Br x y" (a
\* scheme, then a credential with a space in it), a bare credential "xy",
\* and a value that is not a string (an array of values).
AuthValues ==
  {AuthAbsent, AuthNonString,
   AuthString(<<"B", "r">>, <<" ">>, <<"x", " ", "y">>),
   AuthString(<<>>, <<>>, <<"x", "y">>)}

BodyKinds == {"none", "json", "circular"}

HttpInputs == [url : {"valid", "invalid"}, auth : AuthValues, body : BodyKinds]
NoHttpInput == [url |-> "valid", auth |-> AuthAbsent, body |-> "none"]

\* What the underlying client does: it resolves with a response (status 0
\* stands for a response without status) or rejects with an error.
HttpStatuses == {0, 200, 404, 500}
HttpErrors ==
  {ErrorObject("E_plain", "Error", "none", "", FALSE),
   ErrorObject("E_axios", "AxiosError", "json", "ERR_BAD_RESPONSE", TRUE),
   ErrorObject("E_stream", "AxiosError", "circular", "ERR_BAD_RESPONSE", TRUE),
   NullishError}
NoHttpError == ErrorObject("", "", "none", "", FALSE)
HttpOutcomes ==
  [kind : {"resolved"}, status : HttpStatuses, data : {"json"}, error : {NoHttpError}]
  \cup [kind : {"resolved"}, status : {200}, data : BodyKinds, error : {NoHttpError}]
  \cup [kind : {"rejected"}, status : {0}, data : {"none"}, error : HttpErrors]
NoHttpOutcome == [kind |-> "none", status |-> 0, data |-> "none", error |-> NoHttpError]

HttpStatusMessage(statusCode) == "HTTP " \o ToString(statusCode)

\* lines 35-43: the URL block, with its own catch.
HttpUrlOps(s, in, mode) ==
  LET parsed == RunOps(s, (IF in.url = "valid" THEN <<>> ELSE <<OpRaise(TypeError)>>)
                          \o <<OpAttr("http.host", "host"),
                               OpAttr("http.scheme", "https"),
                               OpAttr("http.target", "/path")>>, mode)
  IN IF parsed.err = NoError THEN parsed
     ELSE RunOps(parsed.s, <<OpAttr("http.url.raw", "url")>>, mode)

\* lines 46-56: the allow-listed request headers.
HttpHeaderOps(in) ==
  CASE in.auth.kind = "absent" -> <<>>
    [] in.auth.kind = "nonstring" -> <<OpRaise(TypeError)>>
    [] in.auth.kind = "string" ->
         <<OpAttr("http.request.header.authorization",
                  RedactAuthorization(AuthText(in.auth)))>>

\* lines 59-62: JSON.stringify(options.data || options.body).length
HttpBodyOps(in) ==
  CASE in.body = "none" -> <<>>
    [] in.body = "json" -> <<OpAttr("http.request.body.size", "size")>>
    [] in.body = "circular" -> <<OpRaise(TypeError)>>

\* lines 30-62: everything the try block does before it calls the client.
HttpBeforeCall(s, in, mode) ==
  LET a == RunOps(s, <<OpAttr("http.request.start_time", "now")>>, mode)
      b == IF a.err = NoError THEN HttpUrlOps(a.s, in, mode) ELSE a
  IN IF b.err = NoError
     THEN RunOps(b.s, HttpHeaderOps(in) \o HttpBodyOps(in), mode)
     ELSE b

\* lines 80-89: the classification of the response status.
HttpClassifyOpsAbove400(statusCode) ==
  IF statusCode > 400
  THEN <<OpAttr("error", TRUE),
         OpAttr("error.type", IF statusCode >= 500 THEN "ServerError" ELSE "ClientError"),
         OpStatus("ERROR", HttpStatusMessage(statusCode))>>
  ELSE <<OpStatus("OK", "")>>

\* lines 79-89: the classification of the response status.
HttpClassifyOps(statusCode) ==
  IF statusCode >= 400
  THEN <<OpAttr("error", TRUE),
         OpAttr("error.type", IF statusCode >= 500 THEN "ServerError" ELSE "ClientError"),
         OpStatus("ERROR", HttpStatusMessage(statusCode))>>
  ELSE <<OpStatus("OK", "")>>

\* lines 71-116: what the try block does with the response.
HttpResponseOps(out) ==
  <<OpAttr("http.response.duration_ms", "ms")>>
  \o (IF out.status # 0
      THEN <<OpAttr("http.status_code", out.status),
             OpAttr("http.response.status_code", out.status)>>
           \o HttpClassifyOps(out.status)
      ELSE <<>>)
  \o <<OpAttr("http.response.header.content-type", "application/json")>>
  \o (CASE out.data = "none" -> <<>>
        [] out.data = "json" -> <<OpAttr("http.response.body.size", "size")>>
        [] out.data = "circular" -> <<OpRaise(TypeError)>>)

\* lines 120-149: the catch block, for the error that reached it.
HttpCatchOps(error) ==
  AddErrorDetailsOps(error, "http_request", "METHOD url",
                     <<<<"url", Str("url")>>, <<"method", Str("METHOD")>>,
                       <<"duration_ms", Str("ms")>>, <<"client", Str("unknown")>>>>)
  \o (IF error.nullish THEN <<OpRaise(TypeError)>>
      ELSE (CASE error.response = "none" -> <<>>
              [] error.response = "json" ->
                   <<OpAttr("http.error.status_code", "status"),
                     OpAttr("http.error.response_data", "json")>>
              [] error.response = "circular" ->
                   <<OpAttr("http.error.status_code", "status"),
                     OpRaise(TypeError)>>)
           \o (IF error.code # "" THEN <<OpAttr("http.error.code", error.code)>> ELSE <<>>)
           \o (IF error.config THEN <<OpAttr("http.error.timeout", "timeout")>> ELSE <<>>))

\* lines 150-152: finally { span.end() }, after which the block completes.
FinallyEnd(s, completion, mode) ==
  LET e == RunOps(s, <<OpEnd>>, mode)
  IN [s |-> e.s, result |-> IF e.err # NoError THEN Threw(e.err) ELSE completion]

\* The catch block followed by the finally block.
HttpCatch(s, error, mode) ==
  LET r == RunOps(s, HttpCatchOps(error), mode)
  IN FinallyEnd(r.s, Threw(IF r.err # NoError THEN r.err ELSE error.id), mode)

HttpCalls == {"h1", "h2"}

HttpIdle ==
  [pc |-> "idle", in |-> NoHttpInput, span |-> NoSpan, invoked |-> FALSE,
   out |-> NoHttpOutcome, result |-> NoResult]

\* startActiveSpan(spanName, {attributes}) hands the callback a new span.
HttpNewSpan ==
  [NewSpan EXCEPT !.attrs = [k \in {"http.method", "http.url", "http.client", "component"} |->
      CASE k = "http.method" -> "METHOD"
        [] k = "http.url" -> "url"
        [] k = "http.client" -> "unknown"
        [] k = "component" -> "http-client"]]

\* traceHttpRequest up to `await httpClient(url, options)`.
HttpStart(c, in) ==
  /\ http[c].pc = "idle"
  /\ LET pre == HttpBeforeCall(HttpNewSpan, in, sdkMode)
         fail == HttpCatch(pre.s, InstrumentationError(pre.err), sdkMode)
     IN http' = [http EXCEPT ![c] =
          IF pre.err = NoError
          THEN [@ EXCEPT !.pc = "awaiting", !.in = in, !.span = pre.s, !.invoked = TRUE]
          ELSE [@ EXCEPT !.pc = "done", !.in = in, !.span = fail.s,
                         !.result = fail.result]]
  /\ UNCHANGED <<sdkMode, fac, manual, mw, env, cfg, apiMode, dm, db, em, nest,
               enrich, life, inst>>

\* traceHttpRequest from the settling of the client's promise to its end.
HttpSettle(c, out) ==
  /\ http[c].pc = "awaiting"
  /\ LET post == RunOps(http[c].span, HttpResponseOps(out), sdkMode)
         fin == IF out.kind = "rejected"
                THEN HttpCatch(http[c].span, out.error, sdkMode)
                ELSE IF post.err # NoError
                THEN HttpCatch(post.s, InstrumentationError(post.err), sdkMode)
                ELSE FinallyEnd(post.s, Returned("response"), sdkMode)
     IN http' = [http EXCEPT ![c] =
          [@ EXCEPT !.pc = "done", !.out = out, !.span = fin.s, !.result = fin.result]]
  /\ UNCHANGED <<sdkMode, fac, manual, mw, env, cfg, apiMode, dm, db, em, nest,
               enrich, life, inst>>

(***************************************************************************)
(* tracer.js: DynatraceTracer                                               *)
(***************************************************************************)
MaxEndSpanCalls == 2

\* startSpan (lines 47-63): the SDK opens the span, then the facade stamps
\* span.start_time on it, outside any try.
StartSpan(mode) == RunOps(NewSpan, <<OpAttr("span.start_time", "now")>>, mode)

\* endSpan(span, finalAttributes = {}) (lines 86-107).  A span that was
\* never opened stands for a missing span argument.
EndSpan(s, mode) ==
  IF ~s.opened THEN [s |-> s, err |-> NoError]
  ELSE LET r == RunOps(s, <<OpAttr("span.end_time", "now"), OpEnd>>, mode)
       IN IF r.err = NoError THEN r ELSE RunOps(r.s, <<OpEnd>>, mode)

\* finally { this.endSpan(span) }
FinallyEndSpan(s, completion, mode) ==
  LET e == EndSpan(s, mode)
  IN [s |-> e.s, result |-> IF e.err # NoError THEN Threw(e.err) ELSE completion]

CallbackErrors == {ErrorObject("E_cb", "Error", "none", "", FALSE), NullishError}
CallbackOutcomes ==
  [kind : {"returns"}, error : {NoHttpError}] \cup [kind : {"throws"}, error : CallbackErrors]
NoCallbackOutcome == [kind |-> "none", error |-> NoHttpError]

\* The catch block of withSpan / withSpanAsync (lines 142-154, 194-206).
FacadeCatch(s, error, kind, mode) ==
  LET r == RunOps(s, AddErrorDetailsOps(error, "execution", "name",
                       <<<<"duration_ms", Str("ms")>>, <<"operation_type", Str(kind)>>>>), mode)
  IN FinallyEndSpan(r.s, Threw(IF r.err # NoError THEN r.err ELSE error.id), mode)

\* The try / catch / finally of withSpan and withSpanAsync once the callback
\* has returned or thrown (lines 131-157, 183-209).
FacadeBody(s, cb, kind, mode) ==
  IF cb.kind = "throws" THEN FacadeCatch(s, cb.error, kind, mode)
  ELSE LET r == RunOps(s, <<OpAttr("operation.success", TRUE),
                            OpAttr("operation.duration_ms", "ms"),
                            OpStatus("OK", "")>>, mode)
       IN IF r.err # NoError
          THEN FacadeCatch(r.s, InstrumentationError(r.err), kind, mode)
          ELSE FinallyEndSpan(r.s, Returned("result"), mode)

FacCalls == {"f1", "f2"}

FacIdle ==
  [pc |-> "idle", kind |-> "sync", span |-> NoSpan, invoked |-> FALSE,
   cb |-> NoCallbackOutcome, result |-> NoResult]

\* withSpan(name, attributes, callback): synchronous, one step.
WithSpan(c, cb) ==
  /\ fac[c].pc = "idle"
  /\ LET st == StartSpan(sdkMode)
         fin == FacadeBody(st.s, cb, "sync", sdkMode)
     IN fac' = [fac EXCEPT ![c] =
          IF st.err # NoError
          THEN [@ EXCEPT !.pc = "done", !.kind = "sync", !.span = st.s,
                         !.result = Threw(st.err)]
          ELSE [@ EXCEPT !.pc = "done", !.kind = "sync", !.span = fin.s,
                         !.invoked = TRUE, !.cb = cb, !.result = fin.result]]
  /\ UNCHANGED <<sdkMode, http, manual, mw, env, cfg, apiMode, dm, db, em, nest,
               enrich, life, inst>>

\* withSpanAsync up to `await callback(span)`.
WithSpanAsyncStart(c) ==
  /\ fac[c].pc = "idle"
  /\ LET st == StartSpan(sdkMode)
     IN fac' = [fac EXCEPT ![c] =
          IF st.err # NoError
          THEN [@ EXCEPT !.pc = "done", !.kind = "async", !.span = st.s,
                         !.result = Threw(st.err)]
          ELSE [@ EXCEPT !.pc = "awaiting", !.kind = "async", !.span = st.s,
                         !.invoked = TRUE]]
  /\ UNCHANGED <<sdkMode, http, manual, mw, env, cfg, apiMode, dm, db, em, nest,
               enrich, life, inst>>

\* withSpanAsync from the settling of the callback's promise to its end.
WithSpanAsyncSettle(c, cb) ==
  /\ fac[c].pc = "awaiting"
  /\ fac[c].kind = "async"
  /\ LET fin == FacadeBody(fac[c].span, cb, "async", sdkMode)
     IN fac' = [fac EXCEPT ![c] =
          [@ EXCEPT !.pc = "done", !.span = fin.s, !.cb = cb, !.result = fin.result]]
  /\ UNCHANGED <<sdkMode, http, manual, mw, env, cfg, apiMode, dm, db, em, nest,
               enrich, life, inst>>

\* The catch and finally blocks of span-helpers.js withSpanAsync (lines
\* 224-238).
HelperCatch(s, error, mode) ==
  LET r == RunOps(s, AddErrorDetailsOps(error, "execution", "name",
                                        <<<<"duration_ms", Str("ms")>>>>), mode)
  IN FinallyEnd(r.s, Threw(IF r.err # NoError THEN r.err ELSE error.id), mode)

\* The try / catch / finally of span-helpers.js withSpanAsync once the
\* callback has settled (lines 216-238).
HelperBody(s, cb, mode) ==
  LET ok == RunOps(s, <<OpAttr("operation.success", TRUE),
                        OpAttr("operation.duration_ms", "ms")>>, mode)
  IN IF cb.kind = "throws" THEN HelperCatch(s, cb.error, mode)
     ELSE IF ok.err # NoError
     THEN HelperCatch(ok.s, InstrumentationError(ok.err), mode)
     ELSE FinallyEnd(ok.s, Returned("result"), mode)

\* The statements of span-helpers.js withSpanAsync before the callback.
HelperStartOps == <<OpAttr("operation.start_time", "now")>>

\* span-helpers.js withSpanAsync (lines 207-240) up to `await callback(span)`.
\* Without trace.getActiveTracer line 208 throws and the promise is rejected.
HelperWithSpanAsyncStart(c) ==
  /\ fac[c].pc = "idle"
  /\ LET st == RunOps(NewSpan, HelperStartOps, sdkMode)
         fail == HelperCatch(st.s, InstrumentationError(st.err), sdkMode)
     IN fac' = [fac EXCEPT ![c] =
          IF apiMode = "noGetActiveTracer"
          THEN [@ EXCEPT !.pc = "done", !.kind = "helper", !.result = Threw(TypeError)]
          ELSE IF st.err # NoError
          THEN [@ EXCEPT !.pc = "done", !.kind = "helper", !.span = fail.s,
                         !.result = fail.result]
          ELSE [@ EXCEPT !.pc = "awaiting", !.kind = "helper", !.span = st.s,
                         !.invoked = TRUE]]
  /\ UNCHANGED <<sdkMode, http, manual, mw, env, cfg, apiMode, dm, db, em, nest,
               enrich, life, inst>>

\* span-helpers.js withSpanAsync from the settling of the callback's promise.
HelperWithSpanAsyncSettle(c, cb) ==
  /\ fac[c].pc = "awaiting"
  /\ fac[c].kind = "helper"
  /\ LET fin == HelperBody(fac[c].span, cb, sdkMode)
     IN fac' = [fac EXCEPT ![c] =
          [@ EXCEPT !.pc = "done", !.span = fin.s, !.cb = cb, !.result = fin.result]]
  /\ UNCHANGED <<sdkMode, http, manual, mw, env, cfg, apiMode, dm, db, em, nest,
               enrich, life, inst>>

\* A caller that manages a span by hand: tracer.startSpan(name) ...
ManualIdle == [span |-> NoSpan, calls |-> 0, threw |-> 0, startThrew |-> FALSE]

ManualStartSpan ==
  /\ ~manual.span.opened
  /\ ~manual.startThrew
  /\ manual.calls = 0
  /\ LET st == StartSpan(sdkMode)
     IN manual' = IF st.err # NoError
                  THEN [manual EXCEPT !.startThrew = TRUE]
                  ELSE [manual EXCEPT !.span = st.s]
  /\ UNCHANGED <<sdkMode, http, fac, mw, env, cfg, apiMode, dm, db, em, nest,
               enrich, life, inst>>

\* ... and tracer.endSpan(span), as often as the caller likes.  threw is
\* the number of these calls that threw.
ManualEndSpan ==
  /\ manual.calls < MaxEndSpanCalls
  /\ LET e == EndSpan(manual.span, sdkMode)
     IN manual' = [manual EXCEPT !.span = e.s, !.calls = @ + 1,
                                 !.threw = IF e.err # NoError THEN @ + 1 ELSE @]
  /\ UNCHANGED <<sdkMode, http, fac, mw, env, cfg, apiMode, dm, db, em, nest,
               enrich, life, inst>>

(***************************************************************************)
(* index.js: createExpressMiddleware                                        *)
(***************************************************************************)
MaxResEnd == 2
MaxBodySends == 2

Requests == {"r1", "r2"}

\* req.path as the pieces of text it is made of, so that a path is a route
\* followed by more text: "/health", "/healthcare", "/users".
Paths == {<<"/health">>, <<"/health", "care">>, <<"/users">>}
Methods == {"GET", "OPTIONS"}

\* opts.ignoreRoutes (strings only) and the values of opts.ignoreMethods.
IgnoreRoutes == {<<"/health">>, <<"/metrics">>}
IgnoreMethodLists == {{}, {"OPTIONS"}}

\* String.prototype.startsWith
StartsWith(path, route) ==
  Len(route) <= Len(path) /\ SubSeq(path, 1, Len(route)) = route

\* A body handed to the capture steps: nothing (null, undefined, ''), a
\* value JSON.stringify serializes to `length` characters, a string of
\* `length` characters, a Buffer, or a value that is not serializable.
BodyLengths == 1..3
NoBody == [kind |-> "none", length |-> 0]
CircularBody == [kind |-> "circular", length |-> 0]
JsonBodies == [kind : {"json"}, length : BodyLengths]
RequestBodies == {NoBody, CircularBody} \cup JsonBodies
ResponseData ==
  {NoBody, CircularBody, [kind |-> "buffer", length |-> 3]}
  \cup JsonBodies \cup [kind : {"string"}, length : BodyLengths]

\* What decides the path of a request through the middleware:
\*   enabled              tracerInstance.isEnabled()
\*   path, method         req.path, req.method
\*   ignoreMethods        opts.ignoreMethods
\*   captureRequestBody,
\*   captureResponseBody,
\*   maxBodySize          the options of the same names
\*   body                 req.body
MwAllInputs ==
  [enabled : BOOLEAN, path : Paths, method : Methods,
   ignoreMethods : IgnoreMethodLists,
   captureRequestBody : BOOLEAN, body : RequestBodies,
   captureResponseBody : BOOLEAN, maxBodySize : {2}]
\* The inputs of overlapping requests: the default ignoreMethods, request
\* bodies captured, response bodies not.
MwInputs ==
  {in \in MwAllInputs :
     /\ in.path \in {<<"/health">>, <<"/users">>}
     /\ in.method = "GET" /\ in.ignoreMethods = {}
     /\ in.captureRequestBody /\ ~in.captureResponseBody
     /\ in.body.length \in {0, 1, 3}}
NoMwInput ==
  [enabled |-> FALSE, path |-> <<"/users">>, method |-> "GET", ignoreMethods |-> {},
   captureRequestBody |-> FALSE, body |-> NoBody, captureResponseBody |-> FALSE,
   maxBodySize |-> 2]

\* lines 177-193: the route or the method is ignored.
MwIgnored(in) ==
  \/ \E route \in IgnoreRoutes : in.path = route \/ StartsWith(in.path, route)
  \/ in.method \in in.ignoreMethods

\* The capture step with < where the code has <=.
BodyCaptureOpsBelowCap(capture, body, maxBodySize, key) ==
  IF ~capture \/ body.kind \in {"none", "buffer"} THEN <<>>
  ELSE IF body.kind = "circular" THEN <<OpRaise(TypeError)>>
  ELSE IF body.length < maxBodySize THEN <<OpAttr(key, "body")>>
  ELSE <<OpAttr(key \o ".size", body.length), OpAttr(key \o ".truncated", TRUE)>>

\* lines 251-260, 279-287, 293-300: a body is stamped as attribute `key`
\* when capture is on and its text is not longer than maxBodySize.
BodyCaptureOps(capture, body, maxBodySize, key) ==
  IF ~capture \/ body.kind \in {"none", "buffer"} THEN <<>>
  ELSE IF body.kind = "circular" THEN <<OpRaise(TypeError)>>
  ELSE IF body.length <= maxBodySize THEN <<OpAttr(key, "body")>>
  ELSE <<OpAttr(key \o ".size", body.length), OpAttr(key \o ".truncated", TRUE)>>

\* What the downstream handlers do inside next(), before it returns:
\*   "later"        nothing yet: the response is sent in a later step
\*   "respond"      they send the response (res.end) and return
\*   "throw"        they throw out of next() without responding
\*   "respondThrow" they send the response, then throw out of next()
HandlerKinds == {"later", "respond", "throw", "respondThrow"}
HandlerError == ErrorObject("E_handler", "Error", "none", "", FALSE)

ResponseStatuses == {200, 404, 500}

\* lines 218-270: request metadata, business context, timing, body capture.
MwRequestOps(in) ==
  <<OpAttr("http.method", "METHOD"),
    OpAttr("http.url", "url"),
    OpAttr("http.scheme", "http"),
    OpAttr("http.host", "host"),
    OpAttr("http.user_agent", "agent"),
    OpAttr("business.http_method", "METHOD"),
    OpAttr("business.http_path", "/path"),
    OpAttr("http.request.start_time", "now")>>
  \o BodyCaptureOps(in.captureRequestBody, in.body, in.maxBodySize, "http.request.body")

\* lines 330-348: the classification of the response status.
MwClassifyOps(statusCode) ==
  IF statusCode >= 400
  THEN <<OpAttr("error", TRUE),
         OpAttr("error.type", IF statusCode >= 500 THEN "ServerError" ELSE "ClientError"),
         OpStatus("ERROR", HttpStatusMessage(statusCode))>>
  ELSE <<OpStatus("OK", "")>>

\* lines 305-351: the override of res.end, up to and including span.end().
MwResEndOps(statusCode) ==
  <<OpAttr("http.status_code", statusCode),
    OpAttr("http.response.status_code", statusCode),
    OpAttr("http.request.duration_ms", "ms"),
    OpAttr("http.request.end_time", "now"),
    OpAttr("http.response.content_type", "application/json")>>
  \o MwClassifyOps(statusCode)
  \o <<OpEnd>>

\* One call of the overridden res.end on request record q: the span
\* operations, then originalEnd (line 354) unless one of them threw.
PatchedResEnd(q, statusCode, mode) ==
  LET r == RunOps(q.span, MwResEndOps(statusCode), mode)
  IN [q |-> [q EXCEPT !.span = r.s, !.resEnds = @ + 1, !.statusCode = statusCode,
                      !.sent = IF r.err = NoError THEN @ + 1 ELSE @],
      err |-> r.err]

\* lines 360-373: the catch block: addErrorDetails, span.end(), next(error).
\* An error thrown by the block itself leaves the middleware.
MwCatch(q, error, mode) ==
  LET r == RunOps(q.span,
                  AddErrorDetailsOps(error, "express_middleware", "METHOD /path",
                     <<<<"method", Str("METHOD")>>, <<"url", Str("url")>>,
                       <<"duration_ms", Str("ms")>>>>)
                  \o <<OpEnd>>, mode)
  IN IF r.err # NoError
     THEN [q EXCEPT !.pc = "escaped", !.span = r.s, !.escaped = r.err]
     ELSE [q EXCEPT !.pc = "failed", !.span = r.s,
                    !.nexts = Append(@, "error:" \o error.id)]

\* next() at line 358 and what the downstream handlers do inside it: the
\* request record afterwards and the error thrown out of next(), if any.
MwNext(q, h, statusCode, mode) ==
  LET called == [q EXCEPT !.nexts = Append(@, "next"), !.h = h]
      ended == PatchedResEnd(called, statusCode, mode)
  IN CASE h = "later" -> [q |-> called, err |-> NoError]
       [] h = "throw" -> [q |-> called, err |-> HandlerError.id]
       [] h = "respond" -> ended
       [] h = "respondThrow" ->
            [q |-> ended.q, err |-> IF ended.err # NoError THEN ended.err
                                    ELSE HandlerError.id]

MwIdle ==
  [pc |-> "idle", in |-> NoMwInput, h |-> "later", span |-> NoSpan,
   patched |-> FALSE, nexts |-> <<>>, resEnds |-> 0, sent |-> 0,
   statusCode |-> 0, escaped |-> NoError, datas |-> {}]

\* The error object the catch block receives for an error id.
MwErrorOf(e) ==
  IF e = HandlerError.id THEN HandlerError ELSE InstrumentationError(e)

\* The middleware function (req, res, next) => { ... } (lines 171-376),
\* with the downstream handlers that run inside its call of next().
MwEntered(q, in, h, statusCode, mode) ==
  LET q0 == [q EXCEPT !.in = in]
      skipped == [q0 EXCEPT !.pc = "skipped", !.nexts = Append(@, "next"), !.h = h]
      q1 == [q0 EXCEPT !.span = NewSpan]
      pre == RunOps(q1.span, MwRequestOps(in), mode)
      q2 == [q1 EXCEPT !.span = pre.s, !.patched = TRUE]
      nx == MwNext(q2, h, statusCode, mode)
  IN IF ~in.enabled \/ MwIgnored(in) THEN skipped
     ELSE IF pre.err # NoError
     THEN MwCatch([q1 EXCEPT !.span = pre.s], InstrumentationError(pre.err), mode)
     ELSE IF nx.err # NoError
     THEN MwCatch(nx.q, MwErrorOf(nx.err), mode)
     ELSE [nx.q EXCEPT !.pc = "open"]

MwEnter(r, in, h, statusCode) ==
  /\ mw[r].pc = "idle"
  /\ mw' = [mw EXCEPT ![r] = MwEntered(@, in, h, statusCode, sdkMode)]
  /\ UNCHANGED <<sdkMode, http, fac, manual, env, cfg, apiMode, dm, db, em, nest,
               enrich, life, inst>>

\* A later call of res.end() on a response the middleware has patched: by
\* a handler that answers asynchronously, by an error handler, or again by
\* code that already answered.  res.statusCode keeps its value once sent.
ResEnd(r, statusCode) ==
  /\ mw[r].patched
  /\ mw[r].resEnds < MaxResEnd
  /\ mw[r].statusCode \in {0, statusCode}
  /\ mw' = [mw EXCEPT ![r] = PatchedResEnd(@, statusCode, sdkMode).q]
  /\ UNCHANGED <<sdkMode, http, fac, manual, env, cfg, apiMode, dm, db, em, nest,
               enrich, life, inst>>

\* The text res.json hands to res.send: JSON.stringify of its argument.
Stringified(data) ==
  IF data.kind = "json" THEN [data EXCEPT !.kind = "string"] ELSE data

\* One call of an overridden body-sending method on request record q:
\* the capture steps, then the original method, which ends the response
\* through the overridden res.end.  A capture step that throws leaves the
\* method before the original is called.
PatchedBodySend(q, data, ops, statusCode, mode) ==
  LET r == RunOps(q.span, ops, mode)
      q1 == [q EXCEPT !.span = r.s, !.datas = @ \cup {data}]
  IN IF r.err # NoError THEN q1 ELSE PatchedResEnd(q1, statusCode, mode).q

\* res.json(data) on a patched response (lines 278-289); Express's
\* res.json serializes data and calls this.send(text), the override of
\* lines 292-302.
ResJson(r, data, statusCode) ==
  /\ mw[r].patched
  /\ mw[r].resEnds < MaxResEnd
  /\ mw[r].statusCode \in {0, statusCode}
  /\ Cardinality(mw[r].datas) < MaxBodySends
  /\ data.kind \in {"none", "json", "circular"}
  /\ LET in == mw[r].in
         ops == BodyCaptureOps(in.captureResponseBody, data, in.maxBodySize,
                               "http.response.body")
                \o BodyCaptureOps(in.captureResponseBody, Stringified(data),
                                  in.maxBodySize, "http.response.body")
     IN mw' = [mw EXCEPT ![r] = PatchedBodySend(@, data, ops, statusCode, sdkMode)]
  /\ UNCHANGED <<sdkMode, http, fac, manual, env, cfg, apiMode, dm, db, em, nest,
               enrich, life, inst>>

\* res.send(data) on a patched response (lines 292-302): only a string is
\* captured.
ResSend(r, data, statusCode) ==
  /\ mw[r].patched
  /\ mw[r].resEnds < MaxResEnd
  /\ mw[r].statusCode \in {0, statusCode}
  /\ Cardinality(mw[r].datas) < MaxBodySends
  /\ data.kind \in {"none", "string", "buffer"}
  /\ LET in == mw[r].in
         ops == BodyCaptureOps(in.captureResponseBody, data, in.maxBodySize,
                               "http.response.body")
     IN mw' = [mw EXCEPT ![r] = PatchedBodySend(@, data, ops, statusCode, sdkMode)]
  /\ UNCHANGED <<sdkMode, http, fac, manual, env, cfg, apiMode, dm, db, em, nest,
               enrich, life, inst>>

(***************************************************************************)
(* Configuration: utils/config.js and config/dynatrace-config.js            *)
(***************************************************************************)
\* Number(s) / parseFloat(s) of the non-empty strings that occur as values.
StringToNumber(s) ==
  CASE s = "1.0" -> Hundredths(100)
    [] s = "2" -> Hundredths(200)
    [] s = "0.5" -> Hundredths(50)
    [] OTHER -> NaN

\* ToNumber, as the relational operators apply it to an operand.
ToNumber(x) ==
  CASE x.t = "num" -> x
    [] x.t = "null" -> Hundredths(0)
    [] x.t = "bool" -> IF x.v THEN Hundredths(100) ELSE Hundredths(0)
    [] x.t = "str" -> IF x.v = "" THEN Hundredths(0) ELSE StringToNumber(x.v)
    [] OTHER -> NaN

\* x <= y where the code has x < y.
JsLessOrEqual(x, y) ==
  LET a == ToNumber(x)
      b == ToNumber(y)
  IN a.t = "num" /\ b.t = "num" /\ a.v <= b.v

\* x < y for a number y: false whenever an operand converts to NaN.
JsLess(x, y) ==
  LET a == ToNumber(x)
      b == ToNumber(y)
  IN a.t = "num" /\ b.t = "num" /\ a.v < b.v

\* x === y
StrictEquals(x, y) == x.t # "nan" /\ x = y

\* new URL(s) succeeds.
ValidUrl == "https://abc.live.dynatrace.com/api/v2/otlp"
InvalidUrl == "not a url"
ParsesAsUrl(s) == s = ValidUrl

\* The characters of the strings that take part in a spread.
StringChars(str) ==
  CASE str = "" -> <<>>
    [] str = "t" -> <<"t">>

\* {...x}: the own properties a spread copies (the indexed elements of an
\* array, the indexed characters of a string, nothing of another primitive).
Spread(x) ==
  CASE x.t = "obj" -> x.v
    [] x.t = "str" ->
         [k \in {ToString(i - 1) : i \in 1..Len(StringChars(x.v))} |->
            Str(StringChars(x.v)[CHOOSE i \in 1..Len(StringChars(x.v)) : ToString(i - 1) = k])]
    [] x.t = "arr" ->
         [k \in {ToString(i - 1) : i \in 1..Len(x.v)} |->
            x.v[CHOOSE i \in 1..Len(x.v) : ToString(i - 1) = k]]
    [] OTHER -> EmptyObject

\* Object.assign({}, target, source): the keys of source replace those of
\* target, nested objects included.
DeepMergeShallow(target, source) ==
  [k \in DOMAIN target \cup DOMAIN source |->
     IF k \in DOMAIN source THEN source[k] ELSE target[k]]

\* deepMerge(target, source) (utils/config.js lines 101-113) and
\* DynatraceConfig._deepMerge (dynatrace-config.js lines 244-256).
RECURSIVE DeepMerge(_, _)
DeepMerge(target, source) ==
  [k \in DOMAIN target \cup DOMAIN source |->
     IF k \notin DOMAIN source THEN target[k]
     ELSE IF Truthy(source[k]) /\ source[k].t = "obj"
     THEN Obj(DeepMerge(IF Truthy(Prop(target, k)) THEN Spread(target[k])
                        ELSE EmptyObject,
                        source[k].v))
     ELSE source[k]]

\* result[key] = value on a shallow copy.
With(o, k, v) == [a \in DOMAIN o \cup {k} |-> IF a = k THEN v ELSE o[a]]

\* process.env[name] is set and not empty.
EnvSet(e, name) == name \in DOMAIN e /\ e[name] # ""

\* loadFromEnvironment (utils/config.js lines 54-93); the same assignments
\* open DynatraceConfig._loadFromEnvironment (lines 184-220).
LoadFromEnvironment(baseConfig, e) ==
  LET c1 == IF EnvSet(e, "SERVICE_NAME")
            THEN With(baseConfig, "serviceName", Str(e["SERVICE_NAME"])) ELSE baseConfig
      c2 == IF EnvSet(e, "SERVICE_VERSION")
            THEN With(c1, "serviceVersion", Str(e["SERVICE_VERSION"])) ELSE c1
      c3 == IF EnvSet(e, "NODE_ENV")
            THEN With(c2, "deploymentEnvironment", Str(e["NODE_ENV"])) ELSE c2
      c4 == IF EnvSet(e, "DT_API_URL")
            THEN With(c3, "dtApiUrl", Str(e["DT_API_URL"])) ELSE c3
      c5 == IF EnvSet(e, "DT_API_TOKEN")
            THEN With(c4, "dtApiToken", Str(e["DT_API_TOKEN"])) ELSE c4
      c6 == IF "OTEL_ENABLED" \in DOMAIN e
            THEN With(c5, "enabled", Bool(e["OTEL_ENABLED"] = "true")) ELSE c5
      c7 == IF EnvSet(e, "OTEL_SAMPLING_RATE")
            THEN With(c6, "samplingRate", StringToNumber(e["OTEL_SAMPLING_RATE"])) ELSE c6
  IN IF EnvSet(e, "OTEL_LOG_LEVEL")
     THEN With(c7, "logLevel", Str(e["OTEL_LOG_LEVEL"])) ELSE c7

\* utils/config.js lines 6-26
DEFAULT_CONFIG ==
  [serviceName |-> Str("nodejs-service"),
   serviceVersion |-> Str("1.0.0"),
   deploymentEnvironment |-> Str("development"),
   enabled |-> Bool(TRUE),
   dtApiUrl |-> Null,
   dtApiToken |-> Null,
   samplingRate |-> Hundredths(100),
   maxExportBatchSize |-> Num(512),
   exportTimeoutMs |-> Num(30000),
   autoInstrumentations |-> Arr(<<Str("http"), Str("express")>>),
   logLevel |-> Str("info")]

\* utils/config.js lines 31-47
ENVIRONMENT_PRESETS ==
  [development |-> [samplingRate |-> Hundredths(100), logLevel |-> Str("debug"),
                    maxExportBatchSize |-> Num(128)],
   production |-> [samplingRate |-> Hundredths(10), logLevel |-> Str("warn"),
                   maxExportBatchSize |-> Num(1024)],
   staging |-> [samplingRate |-> Hundredths(50), logLevel |-> Str("info"),
                maxExportBatchSize |-> Num(256)]]

\* PRESETS[name] exists, for whatever value name is.
HasPreset(presets, name) == name.t = "str" /\ name.v \in DOMAIN presets

\* getConfig(userConfig) (utils/config.js lines 168-187)
GetConfig(userConfig, e) ==
  LET environment ==
        IF Truthy(Prop(userConfig, "deploymentEnvironment"))
        THEN userConfig["deploymentEnvironment"]
        ELSE IF EnvSet(e, "NODE_ENV") THEN Str(e["NODE_ENV"])
        ELSE Str("development")
      preset == IF HasPreset(ENVIRONMENT_PRESETS, environment)
                THEN DeepMerge(DEFAULT_CONFIG, ENVIRONMENT_PRESETS[environment.v])
                ELSE DEFAULT_CONFIG
      loaded == LoadFromEnvironment(DeepMerge(preset, userConfig), e)
  IN With(loaded, "deploymentEnvironment", environment)

RequiredFields == {"dtApiUrl", "dtApiToken", "serviceName"}
RequiredError(f) == f \o " is required"
UrlError == "dtApiUrl must be a valid URL"
SamplingError == "samplingRate must be between 0 and 1"
SamplingWarning == "100% sampling rate in production may impact performance"
BatchWarning == "Large batch size may cause memory issues"

Pushed(cond, message) == IF cond THEN <<message>> ELSE <<>>

\* The validators without their serviceName check.
ValidationErrorsWithoutServiceName(config) ==
  Pushed(~Truthy(Prop(config, "dtApiUrl")), RequiredError("dtApiUrl"))
  \o Pushed(~Truthy(Prop(config, "dtApiToken")), RequiredError("dtApiToken"))
  \o Pushed(Truthy(Prop(config, "dtApiUrl"))
            /\ ~(config["dtApiUrl"].t = "str" /\ ParsesAsUrl(config["dtApiUrl"].v)),
            UrlError)
  \o Pushed(JsLess(Prop(config, "samplingRate"), Hundredths(0))
            \/ JsLess(Hundredths(100), Prop(config, "samplingRate")),
            SamplingError)

\* The errors both validators push, in order (utils/config.js lines
\* 124-149, dynatrace-config.js lines 299-324).
ValidationErrors(config) ==
  Pushed(~Truthy(Prop(config, "dtApiUrl")), RequiredError("dtApiUrl"))
  \o Pushed(~Truthy(Prop(config, "dtApiToken")), RequiredError("dtApiToken"))
  \o Pushed(~Truthy(Prop(config, "serviceName")), RequiredError("serviceName"))
  \o Pushed(Truthy(Prop(config, "dtApiUrl"))
            /\ ~(config["dtApiUrl"].t = "str" /\ ParsesAsUrl(config["dtApiUrl"].v)),
            UrlError)
  \o Pushed(JsLess(Prop(config, "samplingRate"), Hundredths(0))
            \/ JsLess(Hundredths(100), Prop(config, "samplingRate")),
            SamplingError)

ProductionFullSampling(config) ==
  /\ StrictEquals(Prop(config, "samplingRate"), Hundredths(100))
  /\ StrictEquals(Prop(config, "deploymentEnvironment"), Str("production"))

\* validateConfig(config) (utils/config.js lines 120-161)
ValidateConfig(config) ==
  LET errors == ValidationErrors(config)
  IN [isValid |-> Len(errors) = 0,
      errors |-> errors,
      warnings |-> Pushed(ProductionFullSampling(config), SamplingWarning)]

\* createConfig that reports the validation result without throwing.
CreateConfigWithoutThrow(userConfig, e) ==
  LET config == GetConfig(userConfig, e)
  IN [config |-> config, validation |-> ValidateConfig(config), threw |-> FALSE]

\* createConfig(userConfig) (utils/config.js lines 194-207): the merged
\* configuration, the validation result, and whether the call throws.
CreateConfig(userConfig, e) ==
  LET config == GetConfig(userConfig, e)
      validation == ValidateConfig(config)
  IN [config |-> config, validation |-> validation, threw |-> ~validation.isValid]

\* dynatrace-config.js lines 6-59
CLASS_DEFAULT_CONFIG ==
  [serviceName |-> Str("nodejs-service"),
   serviceVersion |-> Str("1.0.0"),
   deploymentEnvironment |-> Str("development"),
   enabled |-> Bool(TRUE),
   dtApiUrl |-> Null,
   dtApiToken |-> Null,
   samplingRate |-> Hundredths(100),
   maxExportBatchSize |-> Num(512),
   exportTimeoutMs |-> Num(30000),
   scheduledDelayMs |-> Num(1000),
   logLevel |-> Str("info"),
   customAttributes |-> Obj(EmptyObject),
   instrumentations |-> Obj(
     [http |-> Obj([enabled |-> Bool(TRUE),
                    ignoreIncomingPaths |-> Arr(<<Str("/healthz"), Str("/health"),
                       Str("/metrics"), Str("/favicon.ico"), Str("/robots.txt")>>),
                    ignoreOutgoingHosts |-> Arr(<<Str("dynatrace.com"),
                       Str("prometheus"), Str("grafana")>>)]),
      express |-> Obj([enabled |-> Bool(TRUE),
                       ignoreLayers |-> Arr(<<Str("cors"), Str("helmet"),
                          Str("compression")>>)]),
      mongoose |-> Obj([enabled |-> Bool(TRUE)]),
      redis |-> Obj([enabled |-> Bool(TRUE)]),
      dns |-> Obj([enabled |-> Bool(FALSE)]),
      net |-> Obj([enabled |-> Bool(FALSE)]),
      fs |-> Obj([enabled |-> Bool(FALSE)])]),
   retryConfig |-> Obj([enabled |-> Bool(TRUE),
                        initialDelayMillis |-> Num(1000),
                        maxDelayMillis |-> Num(5000),
                        maxAttempts |-> Num(3)])]

DisabledDebugInstrumentations ==
  Obj([dns |-> Obj([enabled |-> Bool(FALSE)]),
       net |-> Obj([enabled |-> Bool(FALSE)]),
       fs |-> Obj([enabled |-> Bool(FALSE)])])

\* dynatrace-config.js lines 64-98
CLASS_ENVIRONMENT_PRESETS ==
  [development |-> [samplingRate |-> Hundredths(100), logLevel |-> Str("debug"),
                    maxExportBatchSize |-> Num(128), exportTimeoutMs |-> Num(15000)],
   testing |-> [samplingRate |-> Hundredths(10), logLevel |-> Str("warn"),
                maxExportBatchSize |-> Num(64), exportTimeoutMs |-> Num(10000)],
   staging |-> [samplingRate |-> Hundredths(50), logLevel |-> Str("info"),
                maxExportBatchSize |-> Num(256), exportTimeoutMs |-> Num(20000)],
   production |-> [samplingRate |-> Hundredths(10), logLevel |-> Str("warn"),
                   maxExportBatchSize |-> Num(1024), exportTimeoutMs |-> Num(30000),
                   instrumentations |-> DisabledDebugInstrumentations]]

TemplateInstrumentations(express, redis) ==
  Obj([http |-> Obj([enabled |-> Bool(TRUE)]),
       express |-> Obj([enabled |-> Bool(express)]),
       mongoose |-> Obj([enabled |-> Bool(TRUE)]),
       redis |-> Obj([enabled |-> Bool(redis)])])

TemplateAttributes(type, tier) ==
  Obj([k \in {"service.type", "service.tier"} |->
         IF k = "service.type" THEN Str(type) ELSE Str(tier)])

\* dynatrace-config.js lines 103-142
SERVICE_TEMPLATES ==
  [k \in {"web-api", "background-worker", "microservice"} |->
     CASE k = "web-api" ->
            [instrumentations |-> TemplateInstrumentations(TRUE, TRUE),
             customAttributes |-> TemplateAttributes("web-api", "api")]
       [] k = "background-worker" ->
            [instrumentations |-> TemplateInstrumentations(FALSE, TRUE),
             customAttributes |-> TemplateAttributes("worker", "background")]
       [] k = "microservice" ->
            [instrumentations |-> TemplateInstrumentations(TRUE, FALSE),
             customAttributes |-> TemplateAttributes("microservice", "business")]]

\* key.replace('OTEL_ATTR_', '').toLowerCase() of the variables that carry
\* the OTEL_ATTR_ prefix.
CustomAttributeNames == [k \in {"OTEL_ATTR_TEAM"} |-> "team"]

\* DynatraceConfig._loadFromEnvironment (dynatrace-config.js lines 184-236)
ClassLoadFromEnvironment(config, e) ==
  LET envConfig == LoadFromEnvironment(config, e)
      names == DOMAIN e \cap DOMAIN CustomAttributeNames
      customAttrs == [a \in {CustomAttributeNames[k] : k \in names} |->
                        Str(e[CHOOSE k \in names : CustomAttributeNames[k] = a])]
  IN IF names # {}
     THEN With(envConfig, "customAttributes",
               Obj(DeepMerge(Spread(Prop(envConfig, "customAttributes")), customAttrs)))
     ELSE envConfig

\* DynatraceConfig._mergeConfigurations (dynatrace-config.js lines 157-177)
MergeConfigurations(userConfig, e) ==
  LET name == Prop(userConfig, "deploymentEnvironment")
      template == Prop(userConfig, "serviceTemplate")
      c1 == IF Truthy(name) /\ HasPreset(CLASS_ENVIRONMENT_PRESETS, name)
            THEN DeepMerge(CLASS_DEFAULT_CONFIG, CLASS_ENVIRONMENT_PRESETS[name.v])
            ELSE CLASS_DEFAULT_CONFIG
      c2 == IF Truthy(template) /\ HasPreset(SERVICE_TEMPLATES, template)
            THEN DeepMerge(c1, SERVICE_TEMPLATES[template.v])
            ELSE c1
  IN ClassLoadFromEnvironment(DeepMerge(c2, userConfig), e)

\* DynatraceConfig.validate() (dynatrace-config.js lines 295-340)
Validate(config) ==
  LET errors == ValidationErrors(config)
  IN [isValid |-> Len(errors) = 0,
      errors |-> errors,
      warnings |-> Pushed(ProductionFullSampling(config), SamplingWarning)
                   \o Pushed(JsLess(Num(2048), Prop(config, "maxExportBatchSize")),
                             BatchWarning)]

\* The process environment, fixed when the process starts.
Environments ==
  {[k \in D |-> CASE k = "SERVICE_NAME" -> "env-service"
                  [] k = "DT_API_URL" -> ValidUrl
                  [] k = "DT_API_TOKEN" -> "env-token"
                  [] k = "NODE_ENV" -> "production"
                  [] k = "OTEL_SAMPLING_RATE" -> rate] :
     D \in SUBSET {"SERVICE_NAME", "DT_API_URL", "DT_API_TOKEN", "NODE_ENV",
                   "OTEL_SAMPLING_RATE"},
     rate \in {"1.0", "2", "abc"}}
EmptyEnvironment == [k \in {} |-> ""]

\* The configuration objects a caller passes: every field is either left
\* out or given one of a few values.
Absent == [t |-> "absent", v |-> 0]
UserChoices ==
  [serviceName : {Absent, Str(""), Str("svc")},
   dtApiUrl : {Absent, Str(ValidUrl), Str(InvalidUrl)},
   dtApiToken : {Absent, Str("token")},
   samplingRate : {Absent, Hundredths(-50), Hundredths(0), Hundredths(100),
                   Hundredths(150)},
   deploymentEnvironment : {Absent, Str("production"), Str("staging")}]
UserConfigOf(choice) ==
  [k \in {f \in DOMAIN choice : choice[f] # Absent} |-> choice[k]]
UserConfigs == {UserConfigOf(choice) : choice \in UserChoices}

NoValidation == [isValid |-> FALSE, errors |-> <<>>, warnings |-> <<>>]
CfgIdle ==
  [pc |-> "idle", variant |-> "none", user |-> EmptyObject, config |-> EmptyObject,
   validation |-> NoValidation, threw |-> FALSE, sdk |-> FALSE]

\* The configuration objects and process environments that exercise the
\* layers of the merge: a nested instrumentations object, custom attributes,
\* a service template, each of the environment names.
MergeUserChoices ==
  [serviceName : {Absent, Str("svc")},
   samplingRate : {Absent, Hundredths(25)},
   deploymentEnvironment : {Absent, Str("production"), Str("staging"), Str("testing")},
   serviceTemplate : {Absent, Str("background-worker")},
   instrumentations : {Absent, Obj([express |-> Obj([enabled |-> Bool(TRUE)])])},
   customAttributes : {Absent, Obj([team |-> Str("user-team")])}]
MergeUserConfigs == {UserConfigOf(choice) : choice \in MergeUserChoices}
MergeEnvironments ==
  {[k \in D |-> CASE k = "SERVICE_NAME" -> "env-service"
                  [] k = "NODE_ENV" -> "testing"
                  [] k = "OTEL_SAMPLING_RATE" -> "0.5"
                  [] k = "OTEL_ATTR_TEAM" -> "env-team"] :
     D \in SUBSET {"SERVICE_NAME", "NODE_ENV", "OTEL_SAMPLING_RATE", "OTEL_ATTR_TEAM"}}

\* new OtelDynatrace(configOptions) (index.js lines 29-32): createConfig,
\* then #initializeSDK, which creates the NodeSDK object.
NewOtelDynatrace(userConfig) ==
  /\ cfg.pc = "idle"
  /\ LET created == CreateConfig(userConfig, env)
     IN cfg' = [pc |-> "constructed", variant |-> "utils", user |-> userConfig,
                config |-> created.config,
                validation |-> created.validation, threw |-> created.threw,
                sdk |-> ~created.threw]
  /\ UNCHANGED <<sdkMode, http, fac, manual, mw, env, apiMode, dm, db, em, nest,
               enrich, life, inst>>

\* new DynatraceConfig(userConfig) (dynatrace-config.js lines 148-150)
NewDynatraceConfig(userConfig) ==
  /\ cfg.pc = "idle"
  /\ cfg' = [cfg EXCEPT !.pc = "built", !.variant = "class", !.user = userConfig,
                        !.config = MergeConfigurations(userConfig, env)]
  /\ UNCHANGED <<sdkMode, http, fac, manual, mw, env, apiMode, dm, db, em, nest,
               enrich, life, inst>>

\* config.validate() on a DynatraceConfig instance
ConfigValidate ==
  /\ cfg.pc = "built"
  /\ cfg' = [cfg EXCEPT !.pc = "validated", !.validation = Validate(cfg.config)]
  /\ UNCHANGED <<sdkMode, http, fac, manual, mw, env, apiMode, dm, db, em, nest,
               enrich, life, inst>>

(***************************************************************************)
(* The OpenTelemetry API object `trace`, as far as the helpers call it.     *)
(* trace.getActiveTracer is called by database-tracer.js and                *)
(* span-helpers.js; the API build decides whether it exists:                *)
(*   "getActiveTracer"    it exists and hands back a tracer;                *)
(*   "noGetActiveTracer"  it does not exist, and the call throws TypeError. *)
(***************************************************************************)
ApiModes == {"getActiveTracer", "noGetActiveTracer"}

(***************************************************************************)
(* helpers/database-tracer.js: traceDatabaseOperation                       *)
(***************************************************************************)
\* context.query: none, a string (its words, separated by single spaces)
\* or an object (identified by the values it holds).
NoQuery == [type |-> "none", words |-> <<>>, values |-> ""]
StringQuery(words) == [type |-> "string", words |-> words, values |-> ""]
ObjectQuery(values) == [type |-> "object", words |-> <<>>, values |-> values]

\* String.prototype.toUpperCase of the words that open a query.
ToUpperCase(word) ==
  CASE word = "select" -> "SELECT"
    [] word = "alice" -> "ALICE"
    [] word = "bob" -> "BOB"

Queries ==
  {NoQuery,
   StringQuery(<<"select", "alice">>), StringQuery(<<"select", "bob">>),
   StringQuery(<<"alice">>), StringQuery(<<"bob">>),
   ObjectQuery("alice"), ObjectQuery("bob")}

\* The arguments of a call: the operation name, and of the context the
\* query and the number of parameters (-1: no context.parameters).
DbInputs == [operation : {"find"}, query : Queries, parameters : {-1, 2}]
NoDbInput == [operation |-> "find", query |-> NoQuery, parameters |-> -1]

\* What dbFunction() does: it resolves with a result or rejects.
CountFields == {"insertedCount", "modifiedCount", "deletedCount", "matchedCount"}
CountAttribute(f) ==
  CASE f = "insertedCount" -> "db.result.inserted_count"
    [] f = "modifiedCount" -> "db.result.modified_count"
    [] f = "deletedCount" -> "db.result.deleted_count"
    [] f = "matchedCount" -> "db.result.matched_count"

DbErrors ==
  {ErrorObject("E_db", "MongoError", "none", "11000", FALSE),
   ErrorObject("E_conn", "Error", "none", "", FALSE),
   NullishError}
DbResults ==
  {Null, Num(1), Arr(<<Str("row"), Str("row")>>),
   Obj([insertedCount |-> Num(1), acknowledged |-> Bool(TRUE)]),
   Obj([matchedCount |-> Num(2), modifiedCount |-> Num(0)])}
\* Result objects with every combination of the count fields, each absent,
\* undefined, 0 or 3.
CountResults ==
  {Obj(UserConfigOf(choice)) :
     choice \in [CountFields -> {Absent, Undefined, Num(0), Num(3)}]}
DbOutcomesOf(results, errors) ==
  [kind : {"resolved"}, result : results, error : {NoHttpError}]
  \cup [kind : {"rejected"}, result : {Undefined}, error : errors]
NoDbOutcome == [kind |-> "none", result |-> Undefined, error |-> NoHttpError]

\* startActiveSpan(spanName, {attributes}) (lines 18-24)
DbNewSpan(in) ==
  [NewSpan EXCEPT !.attrs = [k \in {"db.operation", "db.system", "component"} |->
      CASE k = "db.operation" -> in.operation
        [] k = "db.system" -> "mock-db"
        [] k = "component" -> "database"]]

\* addDatabaseContext(span, {type: operation, database, collection,
\* ...context}) (span-helpers.js lines 129-156)
AddDatabaseContextOps(in) ==
  <<OpAttr("db.operation", in.operation),
    OpAttr("db.collection.name", "users"),
    OpAttr("db.name", "example")>>
  \o (IF in.query.type # "none"
      THEN <<OpAttr("db.statement.type", in.query.type)>> ELSE <<>>)

\* lines 37-53: the query information.
DbQueryOps(in) ==
  IF in.query.type = "none" THEN <<>>
  ELSE <<OpAttr("db.statement.type", in.query.type)>>
       \o (IF in.query.type = "string"
           THEN <<OpAttr("db.statement.operation", ToUpperCase(Head(in.query.words)))>>
           ELSE <<>>)
       \o (IF in.parameters >= 0
           THEN <<OpAttr("db.statement.parameters_count", in.parameters)>>
           ELSE <<>>)

\* lines 27-65: the try block up to `await dbFunction()`.
DbBeforeCallOps(in) ==
  AddDatabaseContextOps(in) \o DbQueryOps(in)
  \o <<OpAttr("db.operation.start_time", "now")>>

\* lines 73-98: the result information.
DbCountOps(result, fields) ==
  LET present(f) == Prop(result.v, f) # Undefined
      one(f) == IF f \in fields /\ present(f)
                THEN <<OpAttr(CountAttribute(f), result.v[f])>> ELSE <<>>
  IN one("insertedCount") \o one("modifiedCount") \o one("deletedCount")
     \o one("matchedCount")

\* The result information with the deletedCount branch left out.
DbResultInfoOpsWithoutDeleted(result) ==
  IF ~Truthy(result) THEN <<>>
  ELSE IF result.t = "arr"
  THEN <<OpAttr("db.result.count", Len(result.v)), OpAttr("db.result.type", "array")>>
  ELSE IF result.t = "obj"
  THEN DbCountOps(result, CountFields \ {"deletedCount"})
       \o (IF Prop(result.v, "acknowledged") # Undefined
           THEN <<OpAttr("db.result.acknowledged", result.v["acknowledged"])>>
           ELSE <<>>)
  ELSE <<>>

DbResultInfoOps(result) ==
  IF ~Truthy(result) THEN <<>>
  ELSE IF result.t = "arr"
  THEN <<OpAttr("db.result.count", Len(result.v)), OpAttr("db.result.type", "array")>>
  ELSE IF result.t = "obj"
  THEN DbCountOps(result, CountFields)
       \o (IF Prop(result.v, "acknowledged") # Undefined
           THEN <<OpAttr("db.result.acknowledged", result.v["acknowledged"])>>
           ELSE <<>>)
  ELSE <<>>

\* lines 66-108: what the try block does with the result.
DbResultOps(result) ==
  <<OpAttr("db.operation.duration_ms", "ms"),
    OpAttr("db.operation.success", TRUE)>>
  \o DbResultInfoOps(result)
  \o <<OpStatus("OK", "")>>

\* lines 110-134: the catch block, for the error that reached it.  The
\* errors dbFunction rejects with carry no codeName.
DbCatchOps(in, error) ==
  AddErrorDetailsOps(error, "database_operation", in.operation,
                     <<<<"database", Str("example")>>, <<"collection", Str("users")>>,
                       <<"operation", Str(in.operation)>>,
                       <<"duration_ms", Str("ms")>>, <<"system", Str("mock-db")>>>>)
  \o (IF error.nullish THEN <<OpRaise(TypeError)>>
      ELSE IF error.code # "" THEN <<OpAttr("db.error.code", error.code)>>
      ELSE <<>>)

\* The catch block followed by finally { span.end() } (lines 135-137).
DbCatch(s, in, error, mode) ==
  LET r == RunOps(s, DbCatchOps(in, error), mode)
  IN FinallyEnd(r.s, Threw(IF r.err # NoError THEN r.err ELSE error.id), mode)

\* The try / catch / finally of traceDatabaseOperation once dbFunction's
\* promise has settled (lines 66-137).
DbBody(s, in, out, mode) ==
  LET post == RunOps(s, DbResultOps(out.result), mode)
  IN IF out.kind = "rejected" THEN DbCatch(s, in, out.error, mode)
     ELSE IF post.err # NoError
     THEN DbCatch(post.s, in, InstrumentationError(post.err), mode)
     ELSE FinallyEnd(post.s, Returned("result"), mode)

DbCalls == {"d1", "d2"}

DbIdle ==
  [pc |-> "idle", in |-> NoDbInput, span |-> NoSpan, invoked |-> FALSE,
   out |-> NoDbOutcome, result |-> NoResult]

\* traceDatabaseOperation up to `await dbFunction()`.  Without
\* trace.getActiveTracer line 15 throws and the promise is rejected.
DbStart(c, in) ==
  /\ db[c].pc = "idle"
  /\ LET pre == RunOps(DbNewSpan(in), DbBeforeCallOps(in), sdkMode)
         fail == DbCatch(pre.s, in, InstrumentationError(pre.err), sdkMode)
     IN db' = [db EXCEPT ![c] =
          IF apiMode = "noGetActiveTracer"
          THEN [@ EXCEPT !.pc = "done", !.in = in, !.result = Threw(TypeError)]
          ELSE IF pre.err = NoError
          THEN [@ EXCEPT !.pc = "awaiting", !.in = in, !.span = pre.s, !.invoked = TRUE]
          ELSE [@ EXCEPT !.pc = "done", !.in = in, !.span = fail.s,
                         !.result = fail.result]]
  /\ UNCHANGED <<sdkMode, http, fac, manual, mw, env, cfg, apiMode, dm, em, nest,
               enrich, life, inst>>

\* traceDatabaseOperation from the settling of dbFunction's promise on.
DbSettle(c, out) ==
  /\ db[c].pc = "awaiting"
  /\ LET fin == DbBody(db[c].span, db[c].in, out, sdkMode)
     IN db' = [db EXCEPT ![c] =
          [@ EXCEPT !.pc = "done", !.out = out, !.span = fin.s, !.result = fin.result]]
  /\ UNCHANGED <<sdkMode, http, fac, manual, mw, env, cfg, apiMode, dm, em, nest,
               enrich, life, inst>>

(***************************************************************************)
(* index.js: createErrorMiddleware                                          *)
(***************************************************************************)
\* What decides the path of an error through the error middleware:
\*   enabled  tracerInstance.isEnabled()
\*   active   what trace.getActiveSpan() hands back: "none", a span that is
\*            "open", or a span that was "ended" before
\*   addErrorToSpan, captureErrorDetails, logErrors: the options
EmInputs ==
  [enabled : BOOLEAN, active : {"none", "open", "ended"},
   addErrorToSpan : BOOLEAN, captureErrorDetails : BOOLEAN, logErrors : BOOLEAN]
NoEmInput ==
  [enabled |-> FALSE, active |-> "none", addErrorToSpan |-> FALSE,
   captureErrorDetails |-> FALSE, logErrors |-> FALSE]
EmErrors ==
  {HandlerError, ErrorObject("E_db", "MongoError", "none", "11000", FALSE), NullishError}

\* The span trace.getActiveSpan() hands back.
EmActiveSpan(in) ==
  CASE in.active = "none" -> NoSpan
    [] in.active = "open" -> NewSpan
    [] in.active = "ended" -> [NewSpan EXCEPT !.ends = 1]

\* lines 401-466: the statements of the try block.
EmTryOps(in, error) ==
  (IF in.active # "none" /\ in.addErrorToSpan
   THEN AddErrorDetailsOps(error, "request_error_handler", "METHOD url",
                           <<<<"url", Str("url")>>, <<"method", Str("METHOD")>>,
                             <<"user_agent", Str("agent")>>,
                             <<"content_type", Str("type")>>,
                             <<"request_id", Str("id")>>>>)
        \o (IF error.nullish THEN <<OpRaise(TypeError)>>
            ELSE <<OpAttr("error.name", error.type)>>
                 \o (IF in.captureErrorDetails /\ error.code # ""
                     THEN <<OpAttr("error.code", error.code)>> ELSE <<>>))
   ELSE <<>>)
  \o (IF in.logErrors /\ error.nullish THEN <<OpRaise(TypeError)>> ELSE <<>>)

\* The error middleware whose try block has no catch.
EmRunWithoutCatch(in, error, mode) ==
  LET r == RunOps(EmActiveSpan(in), EmTryOps(in, error), mode)
  IN IF ~in.enabled
     THEN [span |-> EmActiveSpan(in), nexts |-> <<error.id>>, caught |-> NoError,
           escaped |-> NoError]
     ELSE [span |-> r.s, nexts |-> IF r.err = NoError THEN <<error.id>> ELSE <<>>,
           caught |-> NoError, escaped |-> r.err]

\* (error, req, res, next) => { ... } (lines 394-468): the active span
\* afterwards, the calls of next, the error the catch block logged and the
\* error that left the middleware.
EmRun(in, error, mode) ==
  LET r == RunOps(EmActiveSpan(in), EmTryOps(in, error), mode)
  IN IF ~in.enabled
     THEN [span |-> EmActiveSpan(in), nexts |-> <<error.id>>, caught |-> NoError,
           escaped |-> NoError]
     ELSE [span |-> r.s, nexts |-> <<error.id>>, caught |-> r.err, escaped |-> NoError]

EmIdle ==
  [pc |-> "idle", in |-> NoEmInput, error |-> NoHttpError, span |-> NoSpan,
   nexts |-> <<>>, caught |-> NoError, escaped |-> NoError, sent |-> 0]

\* Express hands an error to the error middleware.
ErrorMiddleware(in, error) ==
  /\ em.pc = "idle"
  /\ LET r == EmRun(in, error, sdkMode)
     IN em' = [em EXCEPT !.pc = "done", !.in = in, !.error = error, !.span = r.span,
                         !.nexts = r.nexts, !.caught = r.caught, !.escaped = r.escaped]
  /\ UNCHANGED <<sdkMode, http, fac, manual, mw, env, cfg, apiMode, dm, db, nest,
               enrich, life, inst>>

(***************************************************************************)
(* One request with nested spans: the middleware's request span, a         *)
(* business span opened by the handler (DynatraceTracer.withSpanAsync or   *)
(* span-helpers withBusinessSpanAsync), a database wrapper span inside.    *)
(***************************************************************************)
\* span has been started and not ended.
IsOpen(span) == span.opened /\ span.ends = 0

\* req: the request as the middleware sees it; biz, wrap: the business
\* span and the wrapper span; bizIn, wrapIn: the enclosing span that was
\* open when each was started; bizRunning, wrapRunning: its callback or
\* database call has not settled yet.
NestIdle ==
  [req |-> MwIdle,
   bizKind |-> "none", biz |-> NoSpan, bizIn |-> "none", bizRunning |-> FALSE,
   wrap |-> NoSpan, wrapIn |-> "none", wrapRunning |-> FALSE, wrapCalled |-> FALSE]

NestRequestInput ==
  [NoMwInput EXCEPT !.enabled = TRUE]
NestDbInput == NoDbInput

\* The middleware receives the request; the handler runs asynchronously.
NestRequest ==
  /\ nest.req.pc = "idle"
  /\ nest' = [nest EXCEPT !.req = MwEntered(@, NestRequestInput, "later", 0, sdkMode)]
  /\ UNCHANGED <<sdkMode, http, fac, manual, mw, env, cfg, apiMode, dm, db, em,
               enrich, life, inst>>

\* The handler sends the response: res.json / res.end on the patched
\* response (index.js lines 305-355).
NestRespond(statusCode) ==
  /\ nest.req.patched
  /\ nest.req.resEnds < MaxResEnd
  /\ nest.req.statusCode \in {0, statusCode}
  /\ nest' = [nest EXCEPT !.req = PatchedResEnd(@, statusCode, sdkMode).q]
  /\ UNCHANGED <<sdkMode, http, fac, manual, mw, env, cfg, apiMode, dm, db, em,
               enrich, life, inst>>

\* The handler opens a business span and its callback starts to run.
NestEnterBusiness(kind) ==
  /\ nest.req.pc = "open"
  /\ nest.bizKind = "none"
  /\ ~nest.wrapRunning
  /\ LET facade == StartSpan(sdkMode)
         helper == RunOps(NewSpan, HelperStartOps, sdkMode)
         failed == HelperCatch(helper.s, InstrumentationError(helper.err), sdkMode)
         parent == IF IsOpen(nest.req.span) THEN "request" ELSE "none"
     IN nest' =
          IF kind = "facade"
          THEN [nest EXCEPT !.bizKind = kind, !.biz = facade.s,
                            !.bizIn = IF facade.s.opened THEN parent ELSE "none",
                            !.bizRunning = facade.err = NoError]
          ELSE IF apiMode = "noGetActiveTracer"
          THEN [nest EXCEPT !.bizKind = kind]
          ELSE IF helper.err # NoError
          THEN [nest EXCEPT !.bizKind = kind, !.biz = failed.s, !.bizIn = parent]
          ELSE [nest EXCEPT !.bizKind = kind, !.biz = helper.s, !.bizIn = parent,
                            !.bizRunning = TRUE]
  /\ UNCHANGED <<sdkMode, http, fac, manual, mw, env, cfg, apiMode, dm, db, em,
               enrich, life, inst>>

\* The callback of the business span settles, after what it awaited.
NestSettleBusiness(cb) ==
  /\ nest.bizRunning
  /\ ~nest.wrapRunning
  /\ nest' = [nest EXCEPT
       !.biz = IF nest.bizKind = "facade"
               THEN FacadeBody(@, cb, "async", sdkMode).s
               ELSE HelperBody(@, cb, sdkMode).s,
       !.bizRunning = FALSE]
  /\ UNCHANGED <<sdkMode, http, fac, manual, mw, env, cfg, apiMode, dm, db, em,
               enrich, life, inst>>

\* The handler, or the callback of the business span, calls
\* traceDatabaseOperation.
NestEnterWrapper ==
  /\ nest.req.pc = "open"
  /\ ~nest.wrapCalled
  /\ nest.bizKind = "none" \/ nest.bizRunning
  /\ LET pre == RunOps(DbNewSpan(NestDbInput), DbBeforeCallOps(NestDbInput), sdkMode)
         failed == DbCatch(pre.s, NestDbInput, InstrumentationError(pre.err), sdkMode)
         parent == IF nest.bizRunning /\ IsOpen(nest.biz) THEN "business"
                   ELSE IF IsOpen(nest.req.span) THEN "request" ELSE "none"
     IN nest' =
          IF apiMode = "noGetActiveTracer"
          THEN [nest EXCEPT !.wrapCalled = TRUE]
          ELSE IF pre.err # NoError
          THEN [nest EXCEPT !.wrapCalled = TRUE, !.wrap = failed.s, !.wrapIn = parent]
          ELSE [nest EXCEPT !.wrapCalled = TRUE, !.wrap = pre.s, !.wrapIn = parent,
                            !.wrapRunning = TRUE]
  /\ UNCHANGED <<sdkMode, http, fac, manual, mw, env, cfg, apiMode, dm, db, em,
               enrich, life, inst>>

\* dbFunction's promise settles.
NestSettleWrapper(out) ==
  /\ nest.wrapRunning
  /\ nest' = [nest EXCEPT !.wrap = DbBody(@, NestDbInput, out, sdkMode).s,
                          !.wrapRunning = FALSE]
  /\ UNCHANGED <<sdkMode, http, fac, manual, mw, env, cfg, apiMode, dm, db, em,
               enrich, life, inst>>


(***************************************************************************)
(* helpers/span-helpers.js: addErrorDetails called on its own               *)
(***************************************************************************)
\* The span argument: none (null or undefined), a span that is open, a
\* span that was ended before.
EnrichSpanKinds == {"none", "open", "ended"}
EnrichSpan(kind) ==
  CASE kind = "none" -> NoSpan
    [] kind = "open" -> NewSpan
    [] kind = "ended" -> [NewSpan EXCEPT !.ends = 1]

EnrichErrors ==
  {ErrorObject("E_plain", "Error", "none", "", FALSE),
   ErrorObject("E_db", "MongoError", "none", "11000", FALSE),
   NullishError}

\* options.context: its entries in order.
EnrichContexts ==
  {<<>>,
   <<<<"url", Str("u")>>>>,
   <<<<"attempt", Num(3)>>, <<"retry", Bool(FALSE)>>>>,
   <<<<"rate", Hundredths(25)>>, <<"user", Undefined>>>>,
   <<<<"detail", Obj(EmptyObject)>>, <<"parent", Null>>>>}

EnrichIdle ==
  [pc |-> "idle", kind |-> "none", error |-> NoHttpError, step |-> "",
   context |-> <<>>, span |-> NoSpan, threw |-> NoError]

\* addErrorDetails(span, error, {step, context}) (lines 26-75)
AddErrorDetails(kind, error, step, context) ==
  /\ enrich.pc = "idle"
  /\ LET r == RunOps(EnrichSpan(kind), AddErrorDetailsOps(error, step, "", context),
                     sdkMode)
     IN enrich' =
          IF kind = "none"
          THEN [enrich EXCEPT !.pc = "done", !.kind = kind, !.error = error,
                              !.step = step, !.context = context]
          ELSE [enrich EXCEPT !.pc = "done", !.kind = kind, !.error = error,
                              !.step = step, !.context = context,
                              !.span = r.s, !.threw = r.err]
  /\ UNCHANGED <<sdkMode, http, fac, manual, mw, env, cfg, apiMode, dm, db, em, nest,
                 life, inst>>

(***************************************************************************)
(* index.js: the life cycle of an OtelDynatrace instance                    *)
(*                                                                         *)
(* Two builds of the class exist: "index" (start, shutdown, isEnabled) and  *)
(* "debug", whose start() also arms a self-test timer.  The NodeSDK object  *)
(* is fresh, started, stopping (shutdown() called, its promise pending) or  *)
(* shutdown.                                                                *)
(***************************************************************************)
MaxUserStarts == 2
MaxUserShutdowns == 2

LifeVariants == {"index", "debug"}
StartOutcomes == {"ok", "throws"}
ShutdownOutcomes == {"resolves", "rejects"}

\* testTimers: pending setTimeout(#createTestSpans, 2000); flushTimers:
\* pending setTimeout(flush, 3000); flushAwaiting: flush callbacks inside
\* `await this.#sdk.shutdown()`; userShutdown: the caller's shutdown() is
\* inside its await; userDown: a shutdown() of the caller has resolved and
\* the caller has not called start() since; step: the step taken last.
LifeIdle ==
  [variant |-> "none", enabled |-> FALSE, initialized |-> FALSE, sdk |-> "none",
   testTimers |-> 0, flushTimers |-> 0, flushAwaiting |-> 0,
   userShutdown |-> "idle", userStarts |-> 0, userShutdowns |-> 0,
   userDown |-> FALSE, step |-> "none"]

\* isEnabled()
IsEnabled(l) == l.enabled /\ l.initialized

\* The promise of this.#sdk.shutdown() settles.
SdkShutdownSettled(sdk, outcome) ==
  IF sdk # "stopping" THEN sdk
  ELSE IF outcome = "resolves" THEN "shutdown" ELSE "started"

\* start(): index.js lines 90-106; the debug build lines 551-573, which
\* arms the self-test timer after this.#sdk.start() has returned.
StartBody(l, outcome) ==
  IF ~l.enabled THEN l
  ELSE IF outcome = "throws" THEN l
  ELSE [l EXCEPT !.sdk = "started", !.initialized = TRUE,
                 !.testTimers = IF l.variant = "debug" THEN @ + 1 ELSE @]

\* new OtelDynatrace(config): the configuration was accepted and
\* #initializeSDK created the NodeSDK object.
LifeNew(variant, enabled) ==
  /\ life.variant = "none"
  /\ life' = [life EXCEPT !.variant = variant, !.enabled = enabled, !.sdk = "fresh",
                          !.step = "new"]
  /\ UNCHANGED <<sdkMode, http, fac, manual, mw, env, cfg, apiMode, dm, db, em, nest,
                 enrich, inst>>

\* The caller calls start().
LifeStart(outcome) ==
  /\ life.variant # "none"
  /\ life.userStarts < MaxUserStarts
  /\ life' = [StartBody(life, outcome) EXCEPT !.userStarts = @ + 1,
                !.userDown = FALSE, !.step = "start"]
  /\ UNCHANGED <<sdkMode, http, fac, manual, mw, env, cfg, apiMode, dm, db, em, nest,
                 enrich, inst>>

\* The caller calls shutdown() (index.js lines 111-117, debug build lines
\* 627-637): up to the await, or to its end when nothing is initialized.
LifeShutdownCall ==
  /\ life.variant # "none"
  /\ life.userShutdown = "idle"
  /\ life.userShutdowns < MaxUserShutdowns
  /\ life' = IF life.initialized
             THEN [life EXCEPT !.sdk = "stopping", !.userShutdown = "awaiting",
                               !.userShutdowns = @ + 1, !.step = "shutdownCall"]
             ELSE [life EXCEPT !.userShutdowns = @ + 1, !.userDown = TRUE,
                               !.step = "shutdownDone"]
  /\ UNCHANGED <<sdkMode, http, fac, manual, mw, env, cfg, apiMode, dm, db, em, nest,
                 enrich, inst>>

\* shutdown() after its await.  A rejection leaves #initialized as it is;
\* the debug build catches it, so that its shutdown() still resolves.
LifeShutdownSettle(outcome) ==
  /\ life.userShutdown = "awaiting"
  /\ life' = [life EXCEPT
                !.sdk = SdkShutdownSettled(@, outcome),
                !.initialized = IF outcome = "resolves" THEN FALSE ELSE @,
                !.userShutdown = "idle",
                !.userDown = IF outcome = "resolves" \/ life.variant = "debug"
                             THEN TRUE ELSE @,
                !.step = "shutdownDone"]
  /\ UNCHANGED <<sdkMode, http, fac, manual, mw, env, cfg, apiMode, dm, db, em, nest,
                 enrich, inst>>

\* The self-test timer fires: #createTestSpans (lines 578-622) creates
\* its spans and arms the flush timer, unless a span operation threw.
LifeTestTimer(outcome) ==
  /\ life.testTimers > 0
  /\ life' = [life EXCEPT !.testTimers = @ - 1,
                          !.flushTimers = IF outcome = "ok" THEN @ + 1 ELSE @,
                          !.step = "test"]
  /\ UNCHANGED <<sdkMode, http, fac, manual, mw, env, cfg, apiMode, dm, db, em, nest,
                 enrich, inst>>

\* The flush timer fires (lines 609-617): up to `await this.#sdk.shutdown()`.
LifeFlushTimer ==
  /\ life.flushTimers > 0
  /\ life' = [life EXCEPT !.flushTimers = @ - 1, !.flushAwaiting = @ + 1,
                          !.sdk = "stopping", !.step = "flushCall"]
  /\ UNCHANGED <<sdkMode, http, fac, manual, mw, env, cfg, apiMode, dm, db, em, nest,
                 enrich, inst>>

\* The flush callback after its await: `await this.start()`, every error
\* caught and logged.
LifeFlushSettle(shutdownOutcome, startOutcome) ==
  /\ life.flushAwaiting > 0
  /\ LET settled == [life EXCEPT !.flushAwaiting = @ - 1,
                                 !.sdk = SdkShutdownSettled(@, shutdownOutcome),
                                 !.step = "flushDone"]
     IN life' = IF shutdownOutcome = "rejects" THEN settled
                ELSE StartBody(settled, startOutcome)
  /\ UNCHANGED <<sdkMode, http, fac, manual, mw, env, cfg, apiMode, dm, db, em, nest,
                 enrich, inst>>

(***************************************************************************)
(* config/dynatrace-config.js: DynatraceConfig instances as object graphs   *)
(*                                                                         *)
(* Objects live in a heap: a sequence of property maps, an object's         *)
(* identity being its index.  A property holds a primitive value, an array  *)
(* (kept whole: no path below walks into one) or a reference to an object. *)
(***************************************************************************)
MaxInstOps == 2

Ref(i) == [t |-> "ref", v |-> i]
HeapTruthy(x) == x.t = "ref" \/ Truthy(x)

\* An object literal evaluated into the heap: one new object per nested
\* object, the heap afterwards and the identity of the outermost object.
RECURSIVE HeapStore(_, _), HeapStoreKeys(_, _, _, _)
HeapStore(h, props) ==
  LET id == Len(h) + 1
  IN [h |-> HeapStoreKeys(Append(h, EmptyObject), id, props, DOMAIN props), id |-> id]
HeapStoreKeys(h, id, props, keys) ==
  IF keys = {} THEN h
  ELSE LET k == CHOOSE x \in keys : TRUE
           sub == HeapStore(h, props[k].v)
       IN IF props[k].t = "obj"
          THEN HeapStoreKeys([sub.h EXCEPT ![id] = With(@, k, Ref(sub.id))],
                             id, props, keys \ {k})
          ELSE HeapStoreKeys([h EXCEPT ![id] = With(@, k, props[k])],
                             id, props, keys \ {k})

\* The value an object graph holds, read from x downwards.
RECURSIVE Snapshot(_, _)
Snapshot(h, x) ==
  IF x.t = "ref" THEN Obj([k \in DOMAIN h[x.v] |-> Snapshot(h, h[x.v][k])]) ELSE x

\* { ...x } of a property value.
HeapSpread(h, x) == IF x.t = "ref" THEN h[x.v] ELSE Spread(x)

\* _deepMerge(target, source) (lines 244-256) on the heap: result is a new
\* object holding target's properties, the nested objects of target that
\* source does not name being the same objects as in target.
RECURSIVE HeapDeepMerge(_, _, _), HeapDeepMergeKeys(_, _, _, _)
HeapDeepMerge(h, target, source) ==
  LET id == Len(h) + 1
  IN [h |-> HeapDeepMergeKeys(Append(h, target), id, source, DOMAIN source), id |-> id]
HeapDeepMergeKeys(h, id, source, keys) ==
  IF keys = {} THEN h
  ELSE LET k == CHOOSE x \in keys : TRUE
           cur == Prop(h[id], k)
           sub == HeapDeepMerge(h, IF HeapTruthy(cur) THEN HeapSpread(h, cur)
                                   ELSE EmptyObject,
                                source[k].v)
       IN IF source[k].t = "obj"
          THEN HeapDeepMergeKeys([sub.h EXCEPT ![id] = With(@, k, Ref(sub.id))],
                                 id, source, keys \ {k})
          ELSE HeapDeepMergeKeys([h EXCEPT ![id] = With(@, k, source[k])],
                                 id, source, keys \ {k})

\* The module's DEFAULT_CONFIG object (lines 8-59), created once when the
\* module is loaded: the first object of the heap.
ModuleHeap == HeapStore(<<>>, CLASS_DEFAULT_CONFIG).h
DefaultsRef == Ref(1)

\* _loadFromEnvironment(config) (lines 184-236) on the heap: a shallow copy
\* of config with the assignments from the process environment.
HeapLoadFromEnvironment(h, config, e) ==
  LET envConfig == LoadFromEnvironment(h[config], e)
      names == DOMAIN e \cap DOMAIN CustomAttributeNames
      customAttrs == [a \in {CustomAttributeNames[k] : k \in names} |->
                        Str(e[CHOOSE k \in names : CustomAttributeNames[k] = a])]
      old == Prop(envConfig, "customAttributes")
      merged == [k \in DOMAIN HeapSpread(h, old) \cup DOMAIN customAttrs |->
                   IF k \in DOMAIN customAttrs THEN customAttrs[k]
                   ELSE HeapSpread(h, old)[k]]
  IN IF names # {}
     THEN [h |-> h \o <<merged, With(envConfig, "customAttributes", Ref(Len(h) + 1))>>,
           id |-> Len(h) + 2]
     ELSE [h |-> Append(h, envConfig), id |-> Len(h) + 1]

\* _mergeConfigurations(userConfig) (lines 157-177) on the heap.
HeapMergeConfigurations(h, userConfig, e) ==
  LET name == Prop(userConfig, "deploymentEnvironment")
      template == Prop(userConfig, "serviceTemplate")
      c0 == [h |-> Append(h, h[DefaultsRef.v]), id |-> Len(h) + 1]
      c1 == IF Truthy(name) /\ HasPreset(CLASS_ENVIRONMENT_PRESETS, name)
            THEN HeapDeepMerge(c0.h, c0.h[c0.id], CLASS_ENVIRONMENT_PRESETS[name.v])
            ELSE c0
      c2 == IF Truthy(template) /\ HasPreset(SERVICE_TEMPLATES, template)
            THEN HeapDeepMerge(c1.h, c1.h[c1.id], SERVICE_TEMPLATES[template.v])
            ELSE c1
      c3 == HeapDeepMerge(c2.h, c2.h[c2.id], userConfig)
  IN HeapLoadFromEnvironment(c3.h, c3.id, e)

\* get(path) (lines 271-273): path.split('.').reduce((obj, key) =>
\* obj?.[key], this.config).  A primitive has none of the keys used here.
RECURSIVE HeapGet(_, _, _)
HeapGet(h, obj, keys) ==
  IF keys = <<>> THEN obj
  ELSE IF obj.t = "ref" THEN HeapGet(h, Prop(h[obj.v], Head(keys)), Tail(keys))
  ELSE Undefined

\* set(path, value) (lines 280-289) from the object the reduce has reached:
\* the heap afterwards and the error thrown.  The class body is strict
\* code, where creating a property on a primitive throws a TypeError.
RECURSIVE HeapSet(_, _, _, _)
HeapSet(h, obj, keys, value) ==
  CASE obj.t \in {"str", "num", "bool"} -> [h |-> h, threw |-> TypeError]
    [] obj.t = "ref" /\ Len(keys) = 1 ->
         [h |-> [h EXCEPT ![obj.v] = With(@, Head(keys), value)], threw |-> NoError]
    [] obj.t = "ref" /\ Len(keys) > 1 ->
         LET cur == Prop(h[obj.v], Head(keys))
             fresh == Ref(Len(h) + 1)
         IN IF HeapTruthy(cur) THEN HeapSet(h, cur, Tail(keys), value)
            ELSE HeapSet(Append([h EXCEPT ![obj.v] = With(@, Head(keys), fresh)],
                                EmptyObject),
                         fresh, Tail(keys), value)

Instances == {"a", "b"}

\* The objects callers construct instances from.
InstUserConfigs ==
  {EmptyObject,
   [serviceName |-> Str("svc"), enabled |-> Bool(FALSE)],
   [deploymentEnvironment |-> Str("production"),
    retryConfig |-> Obj([maxAttempts |-> Num(5)])]}

\* Paths split at the dots: a top-level key, a key of a nested object, a
\* path through a key that holds a string, through one that holds null or
\* false, and through one that is missing.
InstPaths ==
  {<<"samplingRate">>, <<"retryConfig", "maxAttempts">>, <<"serviceName", "x">>,
   <<"dtApiUrl", "x">>, <<"enabled", "x">>, <<"extra", "deep", "x">>}
InstValues == {Num(7), Bool(FALSE)}

NoInstOp ==
  [kind |-> "none", on |-> "a", path |-> <<>>, value |-> Undefined,
   threw |-> NoError, got |-> Undefined]

\* roots: the config object of each constructed instance (0: not
\* constructed); copy: the object the last getConfig() returned.
InstIdle ==
  [heap |-> ModuleHeap, roots |-> [i \in Instances |-> 0], copy |-> 0,
   copyOf |-> "a", ops |-> 0, last |-> NoInstOp]

\* new DynatraceConfig(userConfig) (lines 148-150)
InstNew(i, userConfig) ==
  /\ inst.roots[i] = 0
  /\ LET m == HeapMergeConfigurations(inst.heap, userConfig, env)
     IN inst' = [inst EXCEPT !.heap = m.h, !.roots[i] = m.id,
                             !.last = [NoInstOp EXCEPT !.kind = "new", !.on = i]]
  /\ UNCHANGED <<sdkMode, http, fac, manual, mw, env, cfg, apiMode, dm, db, em, nest,
                 enrich, life>>

\* instance.set(path, value)
InstSet(i, path, value) ==
  /\ inst.roots[i] # 0
  /\ inst.ops < MaxInstOps
  /\ LET r == HeapSet(inst.heap, Ref(inst.roots[i]), path, value)
     IN inst' = [inst EXCEPT !.heap = r.h, !.ops = @ + 1,
                             !.last = [NoInstOp EXCEPT !.kind = "set", !.on = i,
                                          !.path = path, !.value = value,
                                          !.threw = r.threw]]
  /\ UNCHANGED <<sdkMode, http, fac, manual, mw, env, cfg, apiMode, dm, db, em, nest,
                 enrich, life>>

\* instance.get(path)
InstGet(i, path) ==
  /\ inst.roots[i] # 0
  /\ inst.ops < MaxInstOps
  /\ inst' = [inst EXCEPT !.ops = @ + 1, !.last = [NoInstOp EXCEPT !.kind = "get", !.on = i,
                 !.path = path,
                 !.got = Snapshot(inst.heap, HeapGet(inst.heap, Ref(inst.roots[i]), path))]]
  /\ UNCHANGED <<sdkMode, http, fac, manual, mw, env, cfg, apiMode, dm, db, em, nest,
                 enrich, life>>

\* instance.getConfig() (lines 262-264): { ...this.config }
InstGetConfig(i) ==
  /\ inst.roots[i] # 0
  /\ inst.copy = 0
  /\ inst.ops < MaxInstOps
  /\ inst' = [inst EXCEPT !.heap = Append(@, inst.heap[inst.roots[i]]),
                          !.copy = Len(inst.heap) + 1, !.copyOf = i, !.ops = @ + 1,
                          !.last = [NoInstOp EXCEPT !.kind = "getConfig", !.on = i]]
  /\ UNCHANGED <<sdkMode, http, fac, manual, mw, env, cfg, apiMode, dm, db, em, nest,
                 enrich, life>>

\* The caller assigns through the object getConfig() returned, as in
\* `cfg.retryConfig.maxAttempts = 7`: a plain assignment, possible when
\* every key before the last leads to an object.
InstMutateCopy(path, value) ==
  /\ inst.copy # 0
  /\ inst.ops < MaxInstOps
  /\ LET target == HeapGet(inst.heap, Ref(inst.copy), SubSeq(path, 1, Len(path) - 1))
     IN /\ target.t = "ref"
        /\ inst' = [inst EXCEPT
                      !.heap = [@ EXCEPT ![target.v] = With(@, path[Len(path)], value)],
                      !.ops = @ + 1,
                      !.last = [NoInstOp EXCEPT !.kind = "mutate", !.on = inst.copyOf,
                                   !.path = path, !.value = value]]
  /\ UNCHANGED <<sdkMode, http, fac, manual, mw, env, cfg, apiMode, dm, db, em, nest,
                 enrich, life>>

(***************************************************************************)
(* deepMerge called on its own                                              *)
(***************************************************************************)
\* The values of the key "a" in target and source, and of the key "b".
MergeTargetValues ==
  {Absent, Null, Str("t"),
   Arr(<<Num(1), Num(2)>>),
   Obj([x |-> Num(1),
        y |-> Arr(<<Num(1), Num(2)>>),
        n |-> Obj([p |-> Num(1), r |-> Num(1)])])}
MergeSourceValues ==
  {Absent, Null, Num(5),
   Arr(<<Num(3)>>),
   Obj([y |-> Arr(<<Num(3)>>),
        z |-> Num(9),
        n |-> Obj([q |-> Num(2), r |-> Num(2)])])}
MergeTargets ==
  {UserConfigOf(choice) : choice \in [a : MergeTargetValues, b : {Absent, Num(7)}]}
MergeSources ==
  {UserConfigOf(choice) :
     choice \in [a : MergeSourceValues, b : {Absent, Num(8), Arr(<<>>)}]}

DmIdle == [pc |-> "idle", target |-> EmptyObject, source |-> EmptyObject,
           result |-> EmptyObject]

\* deepMerge(target, source)
DeepMergeCall(target, source) ==
  /\ dm.pc = "idle"
  /\ dm' = [pc |-> "done", target |-> target, source |-> source,
            result |-> DeepMerge(target, source)]
  /\ UNCHANGED <<sdkMode, http, fac, manual, mw, env, cfg, apiMode, db, em, nest,
               enrich, life, inst>>

(***************************************************************************)
(* Specifications, one per component.                                       *)
(***************************************************************************)
Quiet ==
  /\ http = [c \in HttpCalls |-> HttpIdle]
  /\ fac = [c \in FacCalls |-> FacIdle]
  /\ manual = ManualIdle
  /\ mw = [r \in Requests |-> MwIdle]
  /\ cfg = CfgIdle
  /\ dm = DmIdle
  /\ db = [c \in DbCalls |-> DbIdle]
  /\ em = EmIdle
  /\ nest = NestIdle
  /\ enrich = EnrichIdle
  /\ life = LifeIdle
  /\ inst = InstIdle

\* The HTTP wrapper: overlapping calls of traceHttpRequest.
InitHttp ==
  Quiet /\ sdkMode \in SdkModes /\ env = EmptyEnvironment /\ apiMode = "getActiveTracer"
NextHttp ==
  \/ \E c \in HttpCalls, in \in HttpInputs : HttpStart(c, in)
  \/ \E c \in HttpCalls, out \in HttpOutcomes : HttpSettle(c, out)
SpecHttp == InitHttp /\ [][NextHttp]_vars

\* The tracer facade: overlapping withSpan / withSpanAsync calls and a
\* caller that starts and ends a span by hand.
InitTracer ==
  Quiet /\ sdkMode \in SdkModes /\ env = EmptyEnvironment /\ apiMode = "getActiveTracer"
NextTracer ==
  \/ \E c \in FacCalls, cb \in CallbackOutcomes : WithSpan(c, cb)
  \/ \E c \in FacCalls : WithSpanAsyncStart(c)
  \/ \E c \in FacCalls, cb \in CallbackOutcomes : WithSpanAsyncSettle(c, cb)
  \/ ManualStartSpan
  \/ ManualEndSpan
SpecTracer == InitTracer /\ [][NextTracer]_vars

\* The Express middleware: overlapping requests.
InitExpress ==
  Quiet /\ sdkMode \in SdkModes /\ env = EmptyEnvironment /\ apiMode = "getActiveTracer"
NextExpress ==
  \/ \E r \in Requests, in \in MwInputs, h \in HandlerKinds, st \in ResponseStatuses :
       MwEnter(r, in, h, st)
  \/ \E r \in Requests, st \in ResponseStatuses : ResEnd(r, st)
SpecExpress == InitExpress /\ [][NextExpress]_vars

\* The Express middleware on one request, over its options and the bodies
\* it may capture.
NextMiddleware ==
  \/ \E in \in MwAllInputs, h \in {"later", "respond"} : MwEnter("r1", in, h, 200)
  \/ \E data \in ResponseData : ResJson("r1", data, 200)
  \/ \E data \in ResponseData : ResSend("r1", data, 200)
  \/ ResEnd("r1", 200)
SpecMiddleware == InitExpress /\ [][NextMiddleware]_vars

\* Response statuses on both sides of the borders at 400 and 500.
BoundaryStatuses == {200, 399, 400, 499, 500, 503}

\* One HTTP call and one request, over the response statuses.
NextStatus ==
  \/ \E in \in HttpInputs :
       in.url = "valid" /\ in.auth = AuthAbsent /\ in.body = "none" /\ HttpStart("h1", in)
  \/ \E out \in HttpOutcomes : out.kind = "rejected" /\ HttpSettle("h1", out)
  \/ \E st \in BoundaryStatuses :
       HttpSettle("h1", [kind |-> "resolved", status |-> st, data |-> "json",
                         error |-> NoHttpError])
  \/ \E in \in MwInputs, h \in HandlerKinds, st \in BoundaryStatuses :
       MwEnter("r1", in, h, st)
  \/ \E st \in BoundaryStatuses : ResEnd("r1", st)
SpecStatus == InitExpress /\ [][NextStatus]_vars

\* Configuration: one construction per process environment.
InitConfig ==
  Quiet /\ sdkMode = "ok" /\ env \in Environments /\ apiMode = "getActiveTracer"
NextConfig ==
  \/ \E u \in UserConfigs : NewOtelDynatrace(u)
  \/ \E u \in UserConfigs : NewDynatraceConfig(u)
  \/ ConfigValidate
SpecConfig == InitConfig /\ [][NextConfig]_vars

\* Configuration merge: one construction per process environment, from the
\* configurations that exercise the layers.
InitMerge ==
  Quiet /\ sdkMode = "ok" /\ env \in MergeEnvironments /\ apiMode = "getActiveTracer"
NextMerge ==
  \/ \E u \in MergeUserConfigs : NewOtelDynatrace(u)
  \/ \E u \in MergeUserConfigs : NewDynatraceConfig(u)
  \/ ConfigValidate
SpecMerge == InitMerge /\ [][NextMerge]_vars

\* The database wrapper: overlapping calls of traceDatabaseOperation.
InitDb == Quiet /\ sdkMode \in SdkModes /\ env = EmptyEnvironment /\ apiMode \in ApiModes
NextDb ==
  \/ \E c \in DbCalls, in \in DbInputs : DbStart(c, in)
  \/ \E c \in DbCalls, out \in DbOutcomesOf({Null, Num(1)}, {NullishError}) :
       DbSettle(c, out)
SpecDb == InitDb /\ [][NextDb]_vars

\* One call of the database wrapper, over the results dbFunction may give.
NextDbResult ==
  \/ \E in \in DbInputs : in.query = NoQuery /\ DbStart("d1", in)
  \/ \E out \in DbOutcomesOf(DbResults \cup CountResults, DbErrors) : DbSettle("d1", out)
SpecDbResult == InitDb /\ [][NextDbResult]_vars

\* The wrappers that run a callback of the application: one call each of
\* traceDatabaseOperation, DynatraceTracer.withSpanAsync and the
\* span-helpers withSpanAsync.
NextWrappers ==
  \/ \E in \in DbInputs : in.query = NoQuery /\ DbStart("d1", in)
  \/ \E out \in DbOutcomesOf(DbResults, DbErrors) : DbSettle("d1", out)
  \/ WithSpanAsyncStart("f1")
  \/ \E cb \in CallbackOutcomes : WithSpanAsyncSettle("f1", cb)
  \/ HelperWithSpanAsyncStart("f2")
  \/ \E cb \in CallbackOutcomes : HelperWithSpanAsyncSettle("f2", cb)
SpecWrappers == InitDb /\ [][NextWrappers]_vars

\* One request whose handler opens nested spans and sends the response.
NextNest ==
  \/ NestRequest
  \/ \E st \in {200, 500} : NestRespond(st)
  \/ \E kind \in {"facade", "helper"} : NestEnterBusiness(kind)
  \/ \E cb \in CallbackOutcomes : NestSettleBusiness(cb)
  \/ NestEnterWrapper
  \/ \E out \in DbOutcomesOf({Num(1)}, {ErrorObject("E_db", "MongoError", "none", "11000", FALSE)}) :
       NestSettleWrapper(out)
SpecNest == InitDb /\ [][NextNest]_vars

\* addErrorDetails on its own: one call.
NextEnrich ==
  \E kind \in EnrichSpanKinds, error \in EnrichErrors, step \in {"", "step"},
     context \in EnrichContexts : AddErrorDetails(kind, error, step, context)
SpecEnrich == InitHttp /\ [][NextEnrich]_vars

\* One OtelDynatrace instance, its caller and its timers.
InitLifecycle ==
  Quiet /\ sdkMode = "ok" /\ env = EmptyEnvironment /\ apiMode = "getActiveTracer"
NextLifecycle ==
  \/ \E variant \in LifeVariants, enabled \in BOOLEAN : LifeNew(variant, enabled)
  \/ \E outcome \in StartOutcomes : LifeStart(outcome)
  \/ LifeShutdownCall
  \/ \E outcome \in ShutdownOutcomes : LifeShutdownSettle(outcome)
  \/ \E outcome \in StartOutcomes : LifeTestTimer(outcome)
  \/ LifeFlushTimer
  \/ \E o1 \in ShutdownOutcomes, o2 \in StartOutcomes : LifeFlushSettle(o1, o2)
SpecLifecycle == InitLifecycle /\ [][NextLifecycle]_vars

\* The event loop runs every timer that is due and resumes every callback
\* whose promise has settled.
LifecycleFairness ==
  /\ WF_vars(\E outcome \in StartOutcomes : LifeTestTimer(outcome))
  /\ WF_vars(LifeFlushTimer)
  /\ WF_vars(\E o1 \in ShutdownOutcomes, o2 \in StartOutcomes : LifeFlushSettle(o1, o2))
  /\ WF_vars(\E outcome \in ShutdownOutcomes : LifeShutdownSettle(outcome))
SpecLifecycleFair == InitLifecycle /\ [][NextLifecycle]_vars /\ LifecycleFairness

\* Two DynatraceConfig instances of one process, their accessors, and a
\* caller writing through what getConfig() returned.
InitInstances ==
  Quiet /\ sdkMode = "ok" /\ env = EmptyEnvironment /\ apiMode = "getActiveTracer"
NextInstances ==
  \/ \E i \in Instances, u \in InstUserConfigs : InstNew(i, u)
  \/ \E i \in Instances, path \in InstPaths, value \in InstValues : InstSet(i, path, value)
  \/ \E i \in Instances, path \in InstPaths : InstGet(i, path)
  \/ \E i \in Instances : InstGetConfig(i)
  \/ \E path \in InstPaths, value \in InstValues : InstMutateCopy(path, value)
SpecInstances == InitInstances /\ [][NextInstances]_vars

\* The error middleware: one error handed to it.
InitErrorMiddleware ==
  Quiet /\ sdkMode \in SdkModes /\ env = EmptyEnvironment /\ apiMode = "getActiveTracer"
NextErrorMiddleware == \E in \in EmInputs, error \in EmErrors : ErrorMiddleware(in, error)
SpecErrorMiddleware == InitErrorMiddleware /\ [][NextErrorMiddleware]_vars

\* deepMerge on its own: one call on a target and a source.
InitDeepMerge ==
  Quiet /\ sdkMode = "ok" /\ env = EmptyEnvironment /\ apiMode = "getActiveTracer"
NextDeepMerge == \E target \in MergeTargets, source \in MergeSources : DeepMergeCall(target, source)
SpecDeepMerge == InitDeepMerge /\ [][NextDeepMerge]_vars

(***************************************************************************)
(* Claims                                                                   *)
(***************************************************************************)
Range(q) == {q[i] : i \in 1..Len(q)}

AllSpans ==
  {http[c].span : c \in HttpCalls} \cup {fac[c].span : c \in FacCalls}
  \cup {manual.span} \cup {mw[r].span : r \in Requests}

\* What the underlying client produced, as the caller of the wrapper
\* should see it.
ClientCompletion(out) ==
  IF out.kind = "rejected" THEN Threw(out.error.id) ELSE Returned("response")

\* C1: whenever the client of a wrapped HTTP call rejects, the wrapper
\* completes by throwing that very error.
C1_RethrowsTheClientError ==
  \A c \in HttpCalls :
    (http[c].pc = "done" /\ http[c].out.kind = "rejected")
      => http[c].result = Threw(http[c].out.error.id)

\* C2: tracing is fail-open: every finished wrapped HTTP call has invoked
\* the client and completes with the client's own result or error, whatever
\* failed inside the instrumentation.
C2_TracingIsFailOpen ==
  \A c \in HttpCalls :
    http[c].pc = "done"
      => /\ http[c].invoked
         /\ http[c].result = ClientCompletion(http[c].out)

\* C3: the recorded http.request.header.authorization attribute holds no
\* secret character of the credential (the characters of CredChars),
\* whatever the shape of the header value.
C3_AuthorizationIsRedacted ==
  \A c \in HttpCalls :
    LET attrs == http[c].span.attrs
        key == "http.request.header.authorization"
    IN key \in DOMAIN attrs
         => \A i \in 1..Len(attrs[key]) :
              attrs[key][i] \notin (Range(http[c].in.auth.cred) \cap CredChars)

\* C4: every span a wrapper has opened is ended exactly once by the time
\* the wrapper has completed.
C4_WrapperSpansEndedExactlyOnce ==
  /\ \A c \in FacCalls :
       (fac[c].pc = "done" /\ fac[c].span.opened) => fac[c].span.ends = 1
  /\ \A c \in HttpCalls :
       (http[c].pc = "done" /\ http[c].span.opened) => http[c].span.ends = 1

\* C5: a request span is ended at most once, only by a call of res.end and
\* with the status stamped, and it is ended once res.end has been called.
C5_RequestSpanEndedOnceOnResEnd ==
  \A r \in Requests :
    mw[r].span.opened
      => /\ mw[r].span.ends <= 1
         /\ mw[r].span.ends >= 1
              => (mw[r].resEnds >= 1 /\ "http.status_code" \in DOMAIN mw[r].span.attrs)
         /\ mw[r].resEnds >= 1 => mw[r].span.ends = 1

\* C6: closed is terminal: no span receives an operation (setAttribute,
\* setStatus, recordException, end) after its first end().
C6_ClosedIsTerminal ==
  \A s \in AllSpans : s.ends <= 1 /\ ~s.late

\* C7: no call of DynatraceTracer.endSpan throws, the second call on the
\* same span included.
C7_EndSpanNeverThrows == manual.threw = 0

MissingFields(config) == {f \in RequiredFields : ~Truthy(Prop(config, f))}
NamedRequired(errors) == {f \in RequiredFields : RequiredError(f) \in Range(errors)}
Validated == cfg.pc \in {"constructed", "validated"}

\* C8 (as stated): every construction from a configuration with a missing
\* required field fails, with an error list naming exactly the missing fields.
C8_ConstructionFailsOnMissingField ==
  (cfg.pc # "idle" /\ MissingFields(cfg.config) # {})
    => /\ cfg.threw
       /\ NamedRequired(cfg.validation.errors) = MissingFields(cfg.config)

\* C8 (amended): validation names, once each, exactly the missing required
\* fields in its "is required" errors; createConfig fails when a field is
\* missing; constructing a DynatraceConfig never fails.
C8_ValidationNamesMissingFields ==
  /\ Validated
       => /\ NamedRequired(cfg.validation.errors) = MissingFields(cfg.config)
          /\ \A i, j \in 1..Len(cfg.validation.errors) :
               cfg.validation.errors[i] = cfg.validation.errors[j] => i = j
  /\ (cfg.pc = "constructed" /\ MissingFields(cfg.config) # {}) => cfg.threw
  /\ cfg.variant = "class" => ~cfg.threw

C8_Witness ==
  /\ cfg.pc = "constructed"
  /\ cfg.threw
  /\ MissingFields(cfg.config) = {"dtApiToken", "serviceName"}

UrlParses(x) == x.t = "str" /\ ParsesAsUrl(x.v)

\* C9: createConfig, and with it the construction of OtelDynatrace, throws
\* whenever the merged URL is absent, the token is absent or the URL does
\* not parse, and then no SDK object is created.
C9_CreateConfigFailsFast ==
  (/\ cfg.pc = "constructed"
   /\ \/ ~Truthy(Prop(cfg.config, "dtApiUrl"))
      \/ ~Truthy(Prop(cfg.config, "dtApiToken"))
      \/ ~UrlParses(Prop(cfg.config, "dtApiUrl")))
    => (cfg.threw /\ ~cfg.sdk)

C9_Witness ==
  /\ cfg.pc = "constructed"
  /\ Prop(cfg.config, "dtApiUrl") = Str(InvalidUrl)
  /\ Truthy(Prop(cfg.config, "dtApiToken"))
  /\ cfg.threw
  /\ ~cfg.sdk

\* C10: a sampling rate below 0 or above 1 is reported as an error; a rate
\* of 1.0 in the production environment is reported as a warning, adds no
\* error, and leaves an otherwise complete configuration valid and accepted.
C10_SamplingRateValidation ==
  LET rate == Prop(cfg.config, "samplingRate")
      errors == Range(cfg.validation.errors)
  IN Validated
       => /\ (rate.t = "num" /\ (rate.v < 0 \/ rate.v > 100)) => SamplingError \in errors
          /\ (/\ rate = Hundredths(100)
              /\ Prop(cfg.config, "deploymentEnvironment") = Str("production"))
               => /\ SamplingWarning \in Range(cfg.validation.warnings)
                  /\ SamplingError \notin errors
                  /\ (/\ MissingFields(cfg.config) = {}
                      /\ UrlParses(Prop(cfg.config, "dtApiUrl")))
                       => (cfg.validation.isValid /\ ~cfg.threw)

C10_Witness ==
  /\ cfg.pc = "constructed"
  /\ Prop(cfg.config, "samplingRate") = Hundredths(100)
  /\ Prop(cfg.config, "deploymentEnvironment") = Str("production")
  /\ SamplingWarning \in Range(cfg.validation.warnings)
  /\ cfg.validation.isValid
  /\ ~cfg.threw
  /\ cfg.sdk

(***************************************************************************)
(* Merge order                                                              *)
(***************************************************************************)
\* The value at a path of keys in a property map, Absent when the map
\* supplies none.
RECURSIVE At(_, _)
At(o, path) ==
  IF Head(path) \notin DOMAIN o THEN Absent
  ELSE IF Len(path) = 1 THEN o[Head(path)]
  ELSE IF o[Head(path)].t = "obj" THEN At(o[Head(path)].v, Tail(path))
  ELSE Absent

SettingPaths ==
  {<<"serviceName">>, <<"samplingRate">>, <<"logLevel">>, <<"maxExportBatchSize">>,
   <<"deploymentEnvironment">>, <<"dtApiUrl">>,
   <<"instrumentations", "express", "enabled">>,
   <<"instrumentations", "express", "ignoreLayers">>,
   <<"instrumentations", "dns", "enabled">>,
   <<"customAttributes", "service.type">>,
   <<"customAttributes", "team">>}

ClaimedEnvironmentNames == {"development", "staging", "production", "testing"}

\* The environment name that selects the preset, as each module resolves it.
SelectedName(variant, user, e) ==
  IF Truthy(Prop(user, "deploymentEnvironment")) THEN user["deploymentEnvironment"]
  ELSE IF variant = "class" THEN Undefined
  ELSE IF EnvSet(e, "NODE_ENV") THEN Str(e["NODE_ENV"])
  ELSE Str("development")

PresetTable(variant) ==
  IF variant = "utils" THEN ENVIRONMENT_PRESETS ELSE CLASS_ENVIRONMENT_PRESETS
TemplateTable(variant) ==
  IF variant = "utils" THEN EmptyObject ELSE SERVICE_TEMPLATES

\* The layers of a construction, earliest first.
LayersOf(variant, user, e) ==
  LET name == SelectedName(variant, user, e)
      template == Prop(user, "serviceTemplate")
  IN <<IF variant = "utils" THEN DEFAULT_CONFIG ELSE CLASS_DEFAULT_CONFIG,
       IF HasPreset(PresetTable(variant), name)
       THEN PresetTable(variant)[name.v] ELSE EmptyObject,
       IF HasPreset(TemplateTable(variant), template)
       THEN TemplateTable(variant)[template.v] ELSE EmptyObject,
       user,
       IF variant = "utils" THEN LoadFromEnvironment(EmptyObject, e)
       ELSE ClassLoadFromEnvironment(EmptyObject, e),
       IF variant = "utils" THEN [deploymentEnvironment |-> name] ELSE EmptyObject>>

LatestValue(layers, path) ==
  LET supplying == {i \in 1..Len(layers) : At(layers[i], path) # Absent}
  IN IF supplying = {} THEN Absent
     ELSE At(layers[CHOOSE i \in supplying : \A j \in supplying : j <= i], path)

\* Every setting of the final configuration has the value of the latest
\* layer that supplies it.
LatestLayerWins ==
  cfg.pc # "idle"
    => \A path \in SettingPaths :
         At(cfg.config, path) = LatestValue(LayersOf(cfg.variant, cfg.user, env), path)

\* Each of the four environment names has a preset, and a named service
\* template is a layer, in the module that builds the configuration.
EveryLayerExists ==
  cfg.pc # "idle"
    => LET name == SelectedName(cfg.variant, cfg.user, env)
           template == Prop(cfg.user, "serviceTemplate")
       IN /\ (name.t = "str" /\ name.v \in ClaimedEnvironmentNames)
               => HasPreset(PresetTable(cfg.variant), name)
          /\ HasPreset(SERVICE_TEMPLATES, template)
               => HasPreset(TemplateTable(cfg.variant), template)

\* C11: every setting of the final configuration has the value given by the
\* latest layer that supplies it, in the order defaults, preset of the
\* environment name (development, staging, production, testing), service
\* template, user object, process environment, override of the resolved name.
C11_LatestLayerSuppliesEachSetting == LatestLayerWins /\ EveryLayerExists

(***************************************************************************)
(* Deep merge                                                               *)
(***************************************************************************)
\* The merge the claim describes: keys only in target are kept, a source
\* array or leaf replaces what target has, a source object is merged into
\* a target object key by key (into an empty object where target has none).
RECURSIVE MergedAsClaimed(_, _, _)
MergedAsClaimed(result, target, source) ==
  /\ DOMAIN result = DOMAIN target \cup DOMAIN source
  /\ \A k \in DOMAIN result :
       IF k \notin DOMAIN source THEN result[k] = target[k]
       ELSE IF source[k].t # "obj" THEN result[k] = source[k]
       ELSE IF k \in DOMAIN target /\ target[k].t = "obj"
       THEN result[k].t = "obj" /\ MergedAsClaimed(result[k].v, target[k].v, source[k].v)
       ELSE IF k \notin DOMAIN target \/ target[k].t = "null"
       THEN result[k].t = "obj" /\ MergedAsClaimed(result[k].v, EmptyObject, source[k].v)
       ELSE result[k].t = "obj"
            /\ \A j \in DOMAIN source[k].v :
                 source[k].v[j].t # "obj" => result[k].v[j] = source[k].v[j]

\* C12: deepMerge recurses into every nested plain-object field (keys only
\* in target are kept, keys of source win at the leaves) and replaces an
\* array field wholesale by the source array.
C12_DeepMergeRecursesAndReplacesArrays ==
  dm.pc = "done" => MergedAsClaimed(dm.result, dm.target, dm.source)

C12_Witness ==
  /\ dm.pc = "done"
  /\ At(dm.target, <<"a", "n", "p">>) = Num(1)
  /\ At(dm.source, <<"a", "n", "q">>) = Num(2)
  /\ At(dm.result, <<"a", "n", "p">>) = Num(1)
  /\ At(dm.result, <<"a", "n", "q">>) = Num(2)
  /\ At(dm.result, <<"a", "n", "r">>) = Num(2)
  /\ At(dm.result, <<"a", "x">>) = Num(1)
  /\ At(dm.result, <<"a", "y">>) = Arr(<<Num(3)>>)

(***************************************************************************)
(* Database wrapper                                                         *)
(***************************************************************************)
\* The database calls whose dbFunction resolved with an object.
ResolvedWithObject(c) ==
  /\ db[c].pc = "done"
  /\ db[c].out.kind = "resolved"
  /\ db[c].out.result.t = "obj"

\* C13: for a wrapped database call whose result is an object, each of
\* insertedCount, modifiedCount, deletedCount and matchedCount that the
\* result holds is the value of the corresponding db.result.*_count span
\* attribute, and a field the result does not hold has no such attribute.
C13_CountFieldsBecomeAttributes ==
  \A c \in DbCalls :
    ResolvedWithObject(c)
      => \A f \in CountFields :
           LET value == Prop(db[c].out.result.v, f)
               attrs == db[c].span.attrs
           IN IF value # Undefined
              THEN CountAttribute(f) \in DOMAIN attrs /\ attrs[CountAttribute(f)] = value
              ELSE CountAttribute(f) \notin DOMAIN attrs

C13_Witness ==
  /\ ResolvedWithObject("d1")
  /\ Prop(db["d1"].out.result.v, "insertedCount") = Num(0)
  /\ Prop(db["d1"].out.result.v, "deletedCount") = Num(3)
  /\ "modifiedCount" \notin DOMAIN db["d1"].out.result.v
  /\ db["d1"].span.attrs["db.result.inserted_count"] = Num(0)
  /\ db["d1"].span.attrs["db.result.deleted_count"] = Num(3)
  /\ "db.result.modified_count" \notin DOMAIN db["d1"].span.attrs
  /\ db["d1"].span.ends = 1
  /\ db["d1"].result = Returned("result")

\* C14: an exception raised by a decorated database call, or by the callback
\* of a with-span helper, is enriched on the span and re-thrown unchanged:
\* the wrapper's promise is rejected with that same error, never with
\* another one and never resolved.
C14_WrappersRethrowUnchanged ==
  /\ \A c \in DbCalls :
       (db[c].pc = "done" /\ db[c].out.kind = "rejected")
         => db[c].result = Threw(db[c].out.error.id)
  /\ \A c \in FacCalls :
       (fac[c].pc = "done" /\ fac[c].cb.kind = "throws")
         => fac[c].result = Threw(fac[c].cb.error.id)

(***************************************************************************)
(* Error middleware                                                         *)
(***************************************************************************)
\* C15: for every error the error-handling middleware receives, with
\* tracing enabled or not and whether stamping the active span succeeds or
\* throws, it calls next(error) exactly once with that same error, lets no
\* error of its own escape and sends no response.
C15_ErrorMiddlewareCallsNextOnce ==
  em.pc = "done"
    => /\ em.nexts = <<em.error.id>>
       /\ em.escaped = NoError
       /\ em.sent = 0

\* Stamping the active span threw, and the error still went to next.
C15_Witness ==
  /\ em.pc = "done"
  /\ em.in.enabled /\ em.in.active = "ended" /\ em.in.addErrorToSpan
  /\ em.error.id = "E_db"
  /\ em.caught = SpanError
  /\ em.nexts = <<"E_db">>
  /\ em.sent = 0

\* Two database calls given the same operation, query type and parameter
\* count, at the same point and with the same outcome of dbFunction.
SameQueryShape(c1, c2) ==
  /\ db[c1].pc = db[c2].pc
  /\ db[c1].pc \in {"awaiting", "done"}
  /\ db[c1].out = db[c2].out
  /\ db[c1].in.operation = db[c2].in.operation
  /\ db[c1].in.query.type = db[c2].in.query.type
  /\ db[c1].in.parameters = db[c2].in.parameters

\* C20: the database wrapper records only the shape of a query, never its
\* values: two wrapped calls that differ only in the content of the query
\* (same operation, same query type, same parameter count) stamp identical
\* span attributes.
C20_OnlyQueryShapeIsRecorded ==
  \A c1, c2 \in DbCalls :
    SameQueryShape(c1, c2) => db[c1].span.attrs = db[c2].span.attrs

(***************************************************************************)
(* Express middleware: skipping and body capture                            *)
(***************************************************************************)
\* The request's route is in the ignore-route list or its method is in the
\* ignore-method list.
Listed(in) == in.path \in IgnoreRoutes \/ in.method \in in.ignoreMethods

\* C16: the middleware opens a span for a request if and only if tracing is
\* enabled and neither the request's route is in the ignore-route list nor
\* its method in the ignore-method list; a skipped request gets no span and
\* its response object is left unpatched.
C16_SpanIffEnabledAndNotListed ==
  \A r \in Requests :
    mw[r].pc # "idle"
      => /\ mw[r].span.opened <=> (mw[r].in.enabled /\ ~Listed(mw[r].in))
         /\ mw[r].pc = "skipped" => (~mw[r].span.opened /\ ~mw[r].patched)

\* The bodies a capture step can serialize.
Capturable(d) == d.kind \in {"json", "string"}

\* The attributes of capture key `key` on span attributes attrs agree with
\* the bodies `bodies` handed to a capture step that is switched on or off
\* by `capture`, under the cap maxBodySize.
CapturedWithinCap(attrs, key, capture, bodies, maxBodySize) ==
  LET short == {d \in bodies : Capturable(d) /\ d.length <= maxBodySize}
      long == {d \in bodies : Capturable(d) /\ d.length > maxBodySize}
  IN /\ key \in DOMAIN attrs => (capture /\ short # {})
     /\ (key \o ".truncated") \in DOMAIN attrs
          => /\ capture /\ long # {}
             /\ attrs[key \o ".truncated"] = TRUE
             /\ (key \o ".size") \in DOMAIN attrs
             /\ \E d \in long : attrs[key \o ".size"] = d.length
     /\ (key \o ".size") \in DOMAIN attrs => (key \o ".truncated") \in DOMAIN attrs

\* C19: the middleware records a request or response body as a span
\* attribute only when capture of that body is enabled and its serialized
\* length is at most maxBodySize; for a longer body it records only the
\* size and a truncated flag.
C19_BodiesCapturedWithinCap ==
  \A r \in Requests :
    LET in == mw[r].in
        attrs == mw[r].span.attrs
    IN /\ CapturedWithinCap(attrs, "http.request.body", in.captureRequestBody,
                            {in.body}, in.maxBodySize)
       /\ CapturedWithinCap(attrs, "http.response.body", in.captureResponseBody,
                            {Stringified(d) : d \in mw[r].datas}, in.maxBodySize)

\* A request body longer than the cap and a response body of exactly the
\* cap, both with capture on.
C19_Witness ==
  LET q == mw["r1"]
  IN /\ q.in.captureRequestBody /\ q.in.captureResponseBody
     /\ q.in.body = [kind |-> "json", length |-> 3]
     /\ q.datas = {[kind |-> "json", length |-> q.in.maxBodySize]}
     /\ q.span.attrs["http.request.body.size"] = 3
     /\ q.span.attrs["http.request.body.truncated"] = TRUE
     /\ "http.request.body" \notin DOMAIN q.span.attrs
     /\ q.span.attrs["http.response.body"] = "body"
     /\ "http.response.body.truncated" \notin DOMAIN q.span.attrs
     /\ q.sent = 1

(***************************************************************************)
(* Status classification                                                    *)
(***************************************************************************)
\* What the claim requires of a span for a response status.
Classified(span, statusCode) ==
  IF statusCode >= 400
  THEN /\ "error" \in DOMAIN span.attrs /\ span.attrs["error"] = TRUE
       /\ "error.type" \in DOMAIN span.attrs
       /\ span.attrs["error.type"] = IF statusCode >= 500 THEN "ServerError"
                                     ELSE "ClientError"
       /\ span.status = "ERROR"
       /\ span.msg = "HTTP " \o ToString(statusCode)
  ELSE /\ span.status = "OK"
       /\ "error" \notin DOMAIN span.attrs
       /\ "error.type" \notin DOMAIN span.attrs

IsEnded(span) == span.ends >= 1

\* C17: spans are closed bottom-up: whenever a span B is opened while span
\* A is its open enclosing span (request span, then business span, then
\* database wrapper span), B is ended before A is ended, also when the
\* handler sends the response from inside a business span.  As a state
\* property: A is never ended while B is not.
C17_SpansClosedBottomUp ==
  /\ (nest.bizIn = "request" /\ IsEnded(nest.req.span)) => IsEnded(nest.biz)
  /\ (nest.wrapIn = "request" /\ IsEnded(nest.req.span)) => IsEnded(nest.wrap)
  /\ (nest.wrapIn = "business" /\ IsEnded(nest.biz)) => IsEnded(nest.wrap)

(***************************************************************************)
(* Error enrichment                                                         *)
(***************************************************************************)
\* What the claim requires of the span after addErrorDetails.
Enriched(span, error, context) ==
  /\ span.exc
  /\ span.status = "ERROR" /\ span.msg = error.message
  /\ {"error", "error.type", "error.message", "error.timestamp"} \subseteq DOMAIN span.attrs
  /\ span.attrs["error"] = TRUE
  /\ span.attrs["error.type"] = error.type
  /\ span.attrs["error.message"] = error.message
  /\ \A i \in 1..Len(context) :
       /\ ("error.context." \o context[i][1]) \in DOMAIN span.attrs
       /\ span.attrs["error.context." \o context[i][1]] = JsString(context[i][2])

\* The statement as written, for every span and every error: it fails for
\* an error that is null or undefined and for a span that was ended.
C21_EveryErrorIsEnriched ==
  (enrich.pc = "done" /\ enrich.kind # "none")
    => Enriched(enrich.span, enrich.error, enrich.context)

\* C21: for every open span whose operations do not throw and every error
\* object passed to addErrorDetails, after the call the span has the
\* exception recorded, status ERROR with the error's message, the
\* attributes error = true, error.type, error.message and error.timestamp,
\* and one error.context.<key> attribute per context key holding the
\* string form of its value.
C21_ErrorObjectsAreEnriched ==
  (/\ enrich.pc = "done" /\ enrich.kind = "open"
   /\ ~enrich.error.nullish /\ sdkMode # "attrThrows")
    => /\ enrich.threw = NoError
       /\ Enriched(enrich.span, enrich.error, enrich.context)

C21_Witness ==
  /\ enrich.pc = "done" /\ enrich.kind = "open" /\ sdkMode = "ok"
  /\ enrich.error.id = "E_db"
  /\ enrich.context = <<<<"attempt", Num(3)>>, <<"retry", Bool(FALSE)>>>>
  /\ enrich.span.exc /\ enrich.span.status = "ERROR" /\ enrich.span.msg = "E_db"
  /\ enrich.span.attrs["error.type"] = "MongoError"
  /\ enrich.span.attrs["error.timestamp"] = "now"
  /\ enrich.span.attrs["error.context.attempt"] = "3"
  /\ enrich.span.attrs["error.context.retry"] = "false"

(***************************************************************************)
(* The outcome a with-span call leaves on its span                          *)
(***************************************************************************)
SuccessOutcome(span) ==
  /\ "operation.success" \in DOMAIN span.attrs
  /\ span.attrs["operation.success"] = TRUE
  /\ span.status = "OK"

ErrorOutcome(span) ==
  /\ "error" \in DOMAIN span.attrs
  /\ span.attrs["error"] = TRUE
  /\ span.status = "ERROR"

\* C22: with a well-behaved SDK, the span of every finished withSpan or
\* withSpanAsync call whose callback ran was ended carrying exactly one
\* outcome: operation.success = true with status OK when the callback
\* completed normally, error = true with status ERROR when it threw or
\* rejected.
C22_ExactlyOneOutcome ==
  \A c \in FacCalls :
    (fac[c].pc = "done" /\ fac[c].invoked /\ sdkMode = "ok")
      => /\ fac[c].span.ends >= 1
         /\ SuccessOutcome(fac[c].span) # ErrorOutcome(fac[c].span)
         /\ (fac[c].cb.kind = "returns") => SuccessOutcome(fac[c].span)
         /\ (fac[c].cb.kind = "throws") => ErrorOutcome(fac[c].span)

(***************************************************************************)
(* Handing the request on                                                   *)
(***************************************************************************)
\* C29: with a well-behaved SDK, for every request the middleware has been
\* called with, it has called next exactly once: either next() or
\* next(error), whatever the downstream handlers did inside next().
C29_NextCalledExactlyOnce ==
  \A r \in Requests :
    (mw[r].pc # "idle" /\ sdkMode = "ok") => Len(mw[r].nexts) = 1

(***************************************************************************)
(* The sampling rate of an accepted configuration                           *)
(***************************************************************************)
\* Validation accepted the configuration: createConfig returned, or
\* validate() reported isValid.
Accepted ==
  \/ cfg.pc = "constructed" /\ ~cfg.threw
  \/ cfg.pc = "validated" /\ cfg.validation.isValid

\* C27: every configuration accepted by validation has a samplingRate that
\* is a number within [0,1], whatever the caller and OTEL_SAMPLING_RATE
\* supplied.
C27_AcceptedSamplingRateInRange ==
  Accepted =>
    LET rate == Prop(cfg.config, "samplingRate")
    IN rate.t = "num" /\ 0 <= rate.v /\ rate.v <= 100

(***************************************************************************)
(* The preset and the reported environment name                             *)
(***************************************************************************)
\* The name of the preset a construction merged, "none" when it merged no
\* preset.
MergedPresetName(variant, user, e) ==
  LET name == SelectedName(variant, user, e)
  IN IF HasPreset(PresetTable(variant), name) THEN name.v ELSE "none"

\* C28: whenever the final configuration reports one of the environment
\* names development, staging, production, testing in
\* deploymentEnvironment, the preset that was merged into it is the preset
\* of that name.
C28_PresetMatchesReportedEnvironment ==
  cfg.pc # "idle"
    => LET reported == Prop(cfg.config, "deploymentEnvironment")
       IN (reported.t = "str" /\ reported.v \in ClaimedEnvironmentNames)
            => MergedPresetName(cfg.variant, cfg.user, env) = reported.v

(***************************************************************************)
(* Configuration instances                                                  *)
(***************************************************************************)
\* What instance i reads: its whole configuration, "none" before it is
\* constructed.
InstanceView(state, i) ==
  IF state.roots[i] = 0 THEN Str("none")
  ELSE Snapshot(state.heap, Ref(state.roots[i]))

\* C26: no set(path, value) on one instance, and no assignment through the
\* object its getConfig() returned, changes what another instance reads or
\* the built-in defaults later instances are built from.
C26_InstancesAreIsolated ==
  [][inst'.last.kind \in {"set", "mutate"}
       => /\ \A i \in Instances \ {inst'.last.on} :
               InstanceView(inst', i) = InstanceView(inst, i)
          /\ Snapshot(inst'.heap, DefaultsRef) = Snapshot(inst.heap, DefaultsRef)]_vars

\* C30: after every set(path, value), set has not thrown and get(path)
\* returns value, whatever the configuration held at the intermediate keys.
C30_SetThenGetRoundTrips ==
  inst.last.kind = "set"
    => /\ inst.last.threw = NoError
       /\ HeapGet(inst.heap, Ref(inst.roots[inst.last.on]), inst.last.path)
            = inst.last.value

(***************************************************************************)
(* Life cycle                                                               *)
(***************************************************************************)
\* C23: in every reachable state isEnabled() returns true only if the
\* configuration is enabled and the SDK has been started and not shut down
\* since (a shutdown still in flight counts as not yet shut down).
C23_EnabledOnlyWhileSdkRuns ==
  IsEnabled(life) => life.enabled /\ life.sdk \in {"started", "stopping"}

LibrarySteps == {"test", "flushCall", "flushDone"}

\* C24: once a shutdown() of the caller has resolved and has left
\* isEnabled() false, and until the caller calls start() again, no step of
\* the library itself starts the SDK or makes isEnabled() return true.
C24_NoRestartAfterUserShutdown ==
  [][(life.userDown /\ ~IsEnabled(life) /\ life'.step \in LibrarySteps)
       => /\ (life'.sdk = "started" => life.sdk = "started")
          /\ (IsEnabled(life') => IsEnabled(life))]_vars

\* C25: eventually no self-test timer or flush callback is pending any
\* more, and it stays so.
C25_SelfTestEventuallyStops ==
  <>[](life.testTimers = 0 /\ life.flushTimers = 0 /\ life.flushAwaiting = 0)
====
